---- MODULE Spec2Model ----
(***************************************************************************)
(* Model of the iGEM upload API client: the path abstraction               *)
(* (PathArrayable), the session wrapper (igemUploadToolApi), the file      *)
(* operations (FileHandler) and the transport (NetworkHandler).            *)
(*                                                                         *)
(* A JavaScript string is a sequence of one-character strings.  A path     *)
(* value (PathArrayableType) is a record that is either a string or an     *)
(* array of elements, an element being a string or a number.               *)
(***************************************************************************)
EXTENDS Integers, Sequences, FiniteSets, TLC

(***************************************************************************)
(* Bounds of the model.                                                    *)
(***************************************************************************)
MaxStrLen == 3
MaxArrLen == 2
MaxElemLen == 2
MaxEntries == 3
MaxSignIns == 2

(***************************************************************************)
(* Values.                                                                 *)
(***************************************************************************)
Str(s) == [t |-> "string", s |-> s, a |-> <<>>]
Arr(a) == [t |-> "array", s |-> <<>>, a |-> a]
Null == [t |-> "null", s |-> <<>>, a |-> <<>>]
ES(s) == [k |-> "str", s |-> s, n |-> 0]
EN(n) == [k |-> "num", s |-> <<>>, n |-> n]


RECURSIVE SeqsUpTo(_, _)
SeqsUpTo(S, n) ==
    IF n = 0 THEN {<<>>}
    ELSE LET shorter == SeqsUpTo(S, n - 1)
         IN  shorter \cup {Append(q, x) : q \in {r \in shorter : Len(r) = n - 1}, x \in S}

(***************************************************************************)
(* String primitives of the JavaScript runtime used by Path.ts.            *)
(***************************************************************************)
\* the characters String.prototype.trim removes: the WhiteSpace and the
\* LineTerminator code points of ECMAScript.  A character that a string of
\* this module cannot hold is written by its code point.
WhiteSpace ==
    {" ", "\t", "\n", "\r", "\f", "U+000B", "U+00A0", "U+1680",
     "U+2000", "U+2001", "U+2002", "U+2003", "U+2004", "U+2005", "U+2006", "U+2007",
     "U+2008", "U+2009", "U+200A", "U+2028", "U+2029", "U+202F", "U+205F", "U+3000",
     "U+FEFF"}

Digit(d) == CASE d = 0 -> "0" [] d = 1 -> "1" [] d = 2 -> "2" [] d = 3 -> "3"
              [] d = 4 -> "4" [] d = 5 -> "5" [] d = 6 -> "6" [] d = 7 -> "7"
              [] d = 8 -> "8" [] OTHER -> "9"

RECURSIVE numberToString(_)
numberToString(n) ==
    IF n < 10 THEN <<Digit(n)>>
    ELSE Append(numberToString(n \div 10), Digit(n % 10))

\* pathElement.toString()
toString(e) == IF e.k = "num" THEN numberToString(e.n) ELSE e.s

RECURSIVE trimStart(_)
trimStart(s) ==
    IF s # <<>> /\ Head(s) \in WhiteSpace THEN trimStart(Tail(s)) ELSE s

RECURSIVE trimEnd(_)
trimEnd(s) ==
    IF s # <<>> /\ s[Len(s)] \in WhiteSpace THEN trimEnd(SubSeq(s, 1, Len(s) - 1)) ELSE s

\* String.prototype.trim
trim(s) == trimEnd(trimStart(s))

\* String.prototype.split(sep) for a one-character separator
RECURSIVE split(_, _)
split(s, sep) ==
    IF \A i \in 1..Len(s) : s[i] # sep THEN <<s>>
    ELSE LET i == CHOOSE j \in 1..Len(s) : s[j] = sep /\ \A k \in 1..(j - 1) : s[k] # sep
         IN  <<SubSeq(s, 1, i - 1)>> \o split(SubSeq(s, i + 1, Len(s)), sep)

\* Array.prototype.join(sep) on an array of path elements
RECURSIVE join(_, _)
join(a, sep) ==
    IF a = <<>> THEN <<>>
    ELSE IF Len(a) = 1 THEN toString(a[1])
    ELSE toString(a[1]) \o <<sep>> \o join(Tail(a), sep)

RECURSIVE filterNonEmpty(_)
filterNonEmpty(a) ==
    IF a = <<>> THEN <<>>
    ELSE IF Len(a[1].s) # 0 THEN <<a[1]>> \o filterNonEmpty(Tail(a))
    ELSE filterNonEmpty(Tail(a))

(***************************************************************************)
(* PathArrayable (the variant whose operations return new objects).        *)
(***************************************************************************)
\* expand(): a string is split on '/', an array is kept
expand(p) ==
    IF p.t = "string" THEN Arr([i \in 1..Len(split(p.s, "/")) |-> ES(split(p.s, "/")[i])])
    ELSE p

expandEnd(p) == expand(p).a

\* a condense that joins the elements with a blank
condenseBlankJoined(p) ==
    IF p.t = "array" THEN Str(join(p.a, " ")) ELSE p
\* condense(): an array is joined with '/', a string is kept
condense(p) ==
    IF p.t = "array" THEN Str(join(p.a, "/")) ELSE p

condenseEnd(p) == condense(p).s

\* a sanitise that filters the empty elements out before it trims
sanitiseArrayFilterFirst(a) ==
    LET kept == filterNonEmpty([i \in 1..Len(a) |-> ES(toString(a[i]))])
    IN  [i \in 1..Len(kept) |-> ES(trim(kept[i].s))]

\* a sanitise that resolves backtracking by dropping the ".." elements
sanitiseArrayResolved(a) ==
    LET kept == SelectSeq(a, LAMBDA e : toString(e) # <<".", ".">>)
    IN  filterNonEmpty([i \in 1..Len(kept) |-> ES(trim(toString(kept[i])))])
\* the array branch of sanitise(): map(toString().trim()) then filter(length !== 0)
sanitiseArray(a) ==
    filterNonEmpty([i \in 1..Len(a) |-> ES(trim(toString(a[i])))])

\* a sanitise that trims a string without splitting it
sanitiseStringKept(p) ==
    IF p.t = "string" THEN Str(trim(p.s)) ELSE Arr(sanitiseArray(p.a))
\* sanitise(): a string is expanded, sanitised and condensed again
sanitise(p) ==
    IF p.t = "string" THEN condense(Arr(sanitiseArray(expandEnd(p))))
    ELSE Arr(sanitiseArray(p.a))

\* a getNullablePath that hands the held path on whatever its length
getNullablePathKept(p) == p
\* getNullablePath(): null when the held path has length 0
getNullablePath(p) ==
    IF (p.t = "string" /\ Len(p.s) = 0) \/ (p.t = "array" /\ Len(p.a) = 0) THEN Null ELSE p

\* an append that pushes a string argument as one element
appendUnexpanded(p, q) == Arr(expandEnd(p) \o (IF q.t = "string" THEN <<ES(q.s)>> ELSE q.a))
\* append(path): the expansion of this path followed by the expansion of the argument
append(p, q) == Arr(expandEnd(p) \o expandEnd(q))

\* what a method returns: a PathArrayable, or for condenseEnd() and
\* expandEnd() the string or the array itself
returned(method, p, q) ==
    CASE method = "sanitise" -> sanitise(p)
      [] method = "condense" -> condense(p)
      [] method = "expand" -> expand(p)
      [] method = "append" -> append(p, q)
      [] method = "condenseEnd" -> Str(condenseEnd(p))
      [] method = "expandEnd" -> Arr(expandEnd(p))

\* the two PathArrayable classes of the repository: the one whose methods
\* return a new PathArrayable, and the one of src/lib/Path.ts whose methods
\* assign to this.path and return this
PathClasses == {"unnamed/part_001", "lib/Path.ts"}

\* this.path after the method has returned
heldAfter(class, method, p, q) ==
    IF class = "lib/Path.ts"
    THEN CASE method = "sanitise" ->
                \* this.expand().sanitise().condense() on a string, after
                \* which this.path is a string and the array branch is skipped
                IF p.t = "string"
                THEN condense(Arr(sanitiseArray(expand(p).a)))
                ELSE Arr(sanitiseArray(p.a))
           [] method = "condense" ->
                IF p.t = "array" THEN Str(condenseEnd(p)) ELSE p
           [] method = "expand" ->
                IF p.t = "string" THEN Arr(expandEnd(p)) ELSE p
           [] method = "append" -> Arr(expandEnd(p) \o expandEnd(q))
           \* this.condense().path and this.expand().path: the receiver is
           \* condensed or expanded before its value is read
           [] method = "condenseEnd" ->
                IF p.t = "array" THEN Str(condenseEnd(p)) ELSE p
           [] method = "expandEnd" ->
                IF p.t = "string" THEN Arr(expandEnd(p)) ELSE p
    ELSE p


(***************************************************************************)
(* Names used by the file operations.                                      *)
(***************************************************************************)
TeamNumber == 1234

Websites == <<"w", "e", "b", "s", "i", "t", "e", "s">>
Teams == <<"t", "e", "a", "m", "s">>
NamePng == <<"a", ".", "p", "n", "g">>
NameTxt == <<"b", ".", "t", "x", "t">>
NameSvg == <<"u", ".", "s", "v", "g">>
FileNames == {NamePng, NameTxt, NameSvg}
FolderNames == {<<"s">>, <<"t">>}
\* the order in which a directory's entries are enumerated
NameOrder == <<NamePng, NameTxt, <<"s">>, <<"t">>, NameSvg>>

\* enum FILE_TYPES
FILE_TYPES == {<<"F", "o", "l", "d", "e", "r">>, <<"p", "n", "g">>, <<"j", "p", "g">>,
               <<"s", "v", "g">>, <<"w", "e", "b", "p">>, <<"w", "o", "f", "f", "2">>}

UpperCase == <<"A", "B", "C", "D", "E", "F", "G", "H", "I", "J", "K", "L", "M", "N", "O", "P",
               "Q", "R", "S", "T", "U", "V", "W", "X", "Y", "Z">>
LowerCase == <<"a", "b", "c", "d", "e", "f", "g", "h", "i", "j", "k", "l", "m", "n", "o", "p",
               "q", "r", "s", "t", "u", "v", "w", "x", "y", "z">>

toLowerCaseChar(c) ==
    IF \E i \in 1..Len(UpperCase) : UpperCase[i] = c
    THEN LowerCase[CHOOSE i \in 1..Len(UpperCase) : UpperCase[i] = c]
    ELSE c

toLowerCase(s) == [i \in 1..Len(s) |-> toLowerCaseChar(s[i])]

\* an extension that is compared as it is written
extensionAsWritten(filename) ==
    LET parts == split(filename, ".") IN parts[Len(parts)]
\* filename.split('.').pop()?.toLowerCase()
extensionOf(filename) ==
    LET parts == split(filename, ".") IN toLowerCase(parts[Len(parts)])

\* an extension check that accepts every name
assertSupportedFileTypeSkipped(filename) == TRUE

\* assertSupportedFileType: TRUE when it returns, FALSE when it throws
assertSupportedFileType(filename) == extensionOf(filename) \in FILE_TYPES

(***************************************************************************)
(* Trees: the directories and files of a local directory or of the remote  *)
(* store, as sets of paths (sequences of names) below the root.            *)
(***************************************************************************)
IsPrefix(p, q) == Len(p) <= Len(q) /\ SubSeq(q, 1, Len(p)) = p

Parent(p) == SubSeq(p, 1, Len(p) - 1)

\* the trees with one more entry than tree: a file or a folder added to the
\* root or to one of its folders
Grown(tree, names) ==
    {[tree EXCEPT !.files = @ \cup {Append(d, f)}] :
        d \in tree.dirs \cup {<<>>}, f \in names}
    \cup {[tree EXCEPT !.dirs = @ \cup {Append(d, g)}] :
        d \in tree.dirs \cup {<<>>}, g \in FolderNames}

RECURSIVE TreesUpTo(_, _)
TreesUpTo(n, names) ==
    IF n = 0 THEN {[dirs |-> {}, files |-> {}]}
    ELSE TreesUpTo(n - 1, names)
             \cup UNION {Grown(tree, names) : tree \in TreesUpTo(n - 1, names)}

\* the local trees, and the remote trees (what a remote file is called does
\* not matter to the operations on it: two names)
LocalTrees == {t : t \in TreesUpTo(MaxEntries, FileNames)}
RemoteTrees == {t : t \in TreesUpTo(MaxEntries, {NamePng, NameTxt})}

FlatLocalTrees == {t \in LocalTrees : t.dirs = {}}
FlatRemoteTrees == {t \in RemoteTrees : t.dirs = {}}
EmptyTree == [dirs |-> {}, files |-> {}]

\* the names below directory d of a tree that are in set S, in enumeration order
RECURSIVE EntriesFrom(_, _, _)
EntriesFrom(S, d, i) ==
    IF i > Len(NameOrder) THEN <<>>
    ELSE IF Append(d, NameOrder[i]) \in S THEN <<NameOrder[i]>> \o EntriesFrom(S, d, i + 1)
    ELSE EntriesFrom(S, d, i + 1)


(***************************************************************************)
(* The local file system (fs-extra): a tree mounted at the relative path   *)
(* "l" of the working directory.                                           *)
(***************************************************************************)
LocalMount == [abs |-> FALSE, segs |-> <<<<"l">>>>]

\* the names of a path that name an entry: "." and the empty name stand for
\* the directory they are in, ".." for the one above
RECURSIVE resolvedNames(_, _)
resolvedNames(q, acc) ==
    IF q = <<>> THEN acc
    ELSE IF q[1] = <<>> \/ q[1] = <<".">> THEN resolvedNames(Tail(q), acc)
    ELSE IF q[1] = <<".", ".">> /\ acc # <<>> /\ acc[Len(acc)] # <<".", ".">>
    THEN resolvedNames(Tail(q), SubSeq(acc, 1, Len(acc) - 1))
    ELSE resolvedNames(Tail(q), Append(acc, q[1]))

\* how the operating system reads a path string
resolveLocal(s) ==
    [abs |-> s # <<>> /\ s[1] = "/", segs |-> resolvedNames(split(s, "/"), <<>>)]

localRel(s) ==
    LET r == resolveLocal(s)
    IN  SubSeq(r.segs, Len(LocalMount.segs) + 1, Len(r.segs))

\* what is at a place of the working directory: the working directory holds
\* the mount and nothing else, the root is outside what the program is given
kindAt(fs, abs, segs) ==
    IF abs THEN IF segs = <<>> THEN "dir" ELSE "missing"
    ELSE IF segs = <<>> THEN "dir"
    ELSE IF ~IsPrefix(LocalMount.segs, segs) THEN "missing"
    ELSE LET rel == SubSeq(segs, Len(LocalMount.segs) + 1, Len(segs))
         IN  IF rel = <<>> \/ rel \in fs.dirs THEN "dir"
             ELSE IF rel \in fs.files THEN "file"
             ELSE "missing"

\* the walk along the names of a path: a name is looked up in a directory only
RECURSIVE walkable(_, _, _, _)
walkable(fs, abs, q, at) ==
    IF q = <<>> THEN TRUE
    ELSE IF kindAt(fs, abs, at) # "dir" THEN FALSE
    ELSE walkable(fs, abs, Tail(q), resolvedNames(<<q[1]>>, at))

\* fs.statSync(path): a directory, a file, or a throw
localKind(fs, s) ==
    LET r == resolveLocal(s)
    IN  IF s = <<>> \/ ~walkable(fs, r.abs, split(s, "/"), <<>>) THEN "missing"
        ELSE kindAt(fs, r.abs, r.segs)

\* fs.readdirSync: the entry names, or a throw
readdirSync(fs, s) ==
    IF localKind(fs, s) # "dir" THEN [ok |-> FALSE, names |-> <<>>]
    ELSE IF IsPrefix(LocalMount.segs, resolveLocal(s).segs)
    THEN [ok |-> TRUE, names |-> EntriesFrom(fs.files \cup fs.dirs, localRel(s), 1)]
    ELSE IF resolveLocal(s).abs THEN [ok |-> TRUE, names |-> <<>>]
    ELSE [ok |-> TRUE, names |-> LocalMount.segs]

\* fs.exists(path) of fs-extra, called without a callback, returns a Promise
\* (an object) that later resolves to the answer
fsExists(fs, s) == [type |-> "object", value |-> localKind(fs, s) # "missing"]

\* the JavaScript operator !: an object is truthy
logicalNot(v) == IF v.type = "boolean" THEN ~v.value ELSE FALSE

\* fs.createReadStream(path), made when the request is built: the stream of a
\* file gives the request its body or fails while it is read; that of a
\* missing file or of a directory fails
NoBody == "none"
createReadStream(fs, s) == IF localKind(fs, s) = "file" THEN "readable" ELSE "failing"

(***************************************************************************)
(* The remote store: a tree below the team's root.  A listing of a         *)
(* directory gives its files and folders; an unknown directory is empty.   *)
(***************************************************************************)
remoteKey(directory) ==
    IF directory.t = "null" THEN <<>> ELSE split(directory.s, "/")

remoteFiles(tree, directory) ==
    IF remoteKey(directory) \in tree.dirs \cup {<<>>}
    THEN EntriesFrom(tree.files, remoteKey(directory), 1) ELSE <<>>

remoteFolders(tree, directory) ==
    IF remoteKey(directory) \in tree.dirs \cup {<<>>}
    THEN EntriesFrom(tree.dirs, remoteKey(directory), 1) ELSE <<>>

\* the URL the store returns for an uploaded file
urlOf(directory, fileName) == <<directory, fileName>>
NoUrl == <<>>

(***************************************************************************)
(* NetworkHandler.sendRequest: the request as it leaves the client.        *)
(***************************************************************************)
Pending == 0
StreamError == -1
Statuses == {200, 201}

NoError == [type |-> "none", req |-> 0]
Failure(type, req) == [type |-> type, req |-> req]

sendRequest(pathArray, method, directory, name, body, task, token) ==
    [method |-> method,
     url |-> condense(sanitise(Arr(pathArray))).s,
     directory |-> directory,
     name |-> name,
     body |-> body,
     task |-> task,
     token |-> token,
     status |-> Pending]

\* the directory parameter every file operation computes from its remote path
directoryOf(remoteDirectoryPath) == getNullablePath(condense(sanitise(remoteDirectoryPath)))

listDirectoryRequest(remoteDirectoryPath, task, token) ==
    sendRequest(<<ES(Websites), ES(Teams), EN(TeamNumber)>>, "GET",
                directoryOf(remoteDirectoryPath), <<>>, NoBody, task, token)

uploadFileRequest(remoteDirectoryPath, fileStream, fileName, task, token) ==
    sendRequest(<<ES(Websites), ES(Teams), EN(TeamNumber)>>, "POST",
                directoryOf(remoteDirectoryPath), fileName, fileStream, task, token)

deleteFileRequest(remoteDirectoryPath, fileName, task, token) ==
    sendRequest(<<ES(Websites), ES(Teams), EN(TeamNumber), ES(fileName)>>, "DELETE",
                directoryOf(remoteDirectoryPath), fileName, NoBody, task, token)

\* an assertion that lets every status of the 2xx family through
assertStatusCodeFamily(status, expected) == status \in {200, 201}
\* NetworkHandler.assertStatusCode: TRUE when the status is the expected one
assertStatusCode(status, expected) == status = expected


(***************************************************************************)
(* Responses of the remote service.                                        *)
(***************************************************************************)
Defined(items) == [defined |-> TRUE, items |-> items]
Undefined == [defined |-> FALSE, items |-> <<>>]
NoListing == [Files |-> Undefined, Folders |-> Undefined]

\* the collections of a listing body: an empty collection may be absent
listingBody(tree, directory, emptyAbsent) ==
    LET files == remoteFiles(tree, directory)
        folders == remoteFolders(tree, directory)
    IN  [Files |-> IF files = <<>> /\ emptyAbsent THEN Undefined ELSE Defined(files),
         Folders |-> IF folders = <<>> /\ emptyAbsent THEN Undefined ELSE Defined(folders)]

\* collection?.map(f) ?? []
optionalItems(collection) == IF collection.defined THEN collection.items ELSE <<>>

(***************************************************************************)
(* FileHandler.uploadFile up to its request.                               *)
(***************************************************************************)
localFilePathOf(localDirectoryPath, fileName) ==
    condenseEnd(append(localDirectoryPath, Str(fileName)))

\* "NotFound" or "UnsupportedType" when it throws, "request" when it sends
uploadFileCall(fs, localDirectoryPath, fileName) ==
    IF logicalNot(fsExists(fs, localFilePathOf(localDirectoryPath, fileName))) THEN "NotFound"
    ELSE IF ~assertSupportedFileType(fileName) THEN "UnsupportedType"
    ELSE "request"

\* the ends an upload request can have: a stream that fails ends it with the
\* stream's error; one that is readable gives the request its body, or fails
\* when the file cannot be read to its end
uploadStatuses(request) ==
    IF request.body = "readable" THEN Statuses \cup {StreamError} ELSE {StreamError}

(***************************************************************************)
(* FileHandler.purgeDirectory: one task per call, the tasks of a purge in  *)
(* the order of their calls.  st = [tasks, requests].                      *)
(***************************************************************************)
newTask(remotePath, parent) ==
    [dir |-> remotePath, parent |-> parent, phase |-> "listing",
     listing |-> NoListing, error |-> NoError]

\* purgeDirectory up to its first await: sanitise, then listDirectory's request
purgeDirectoryCall(st, remoteDirectoryPath, parent, token) ==
    LET remotePath == sanitise(remoteDirectoryPath)
        t == Len(st.tasks) + 1
    IN  [tasks |-> Append(st.tasks, newTask(remotePath, parent)),
         requests |-> Append(st.requests, listDirectoryRequest(remotePath, t, token))]

\* directory.data.Folders?.map(folder => purgeDirectory(remotePath.append(folder.Name), ...))
RECURSIVE purgeFolders(_, _, _, _, _)
purgeFolders(st, t, folders, i, token) ==
    IF i > Len(folders) THEN st
    ELSE purgeFolders(
             purgeDirectoryCall(st, append(st.tasks[t].dir, Str(folders[i])), t, token),
             t, folders, i + 1, token)

\* a purge that sends the delete of the first file only
deleteFirstFile(requests, t, remotePath, files, token) ==
    IF files = <<>> THEN requests
    ELSE Append(requests, deleteFileRequest(remotePath, files[1], t, token))
\* directory.data.Files?.map(file => deleteFile(remotePath, file.Name, ...))
RECURSIVE deleteFiles(_, _, _, _, _)
deleteFiles(requests, t, remotePath, files, token) ==
    IF files = <<>> THEN requests
    ELSE deleteFiles(Append(requests, deleteFileRequest(remotePath, files[1], t, token)),
                     t, remotePath, Tail(files), token)

\* a join that also holds a promise that no call settles
allChildrenAndOneMore(tasks, p) == FALSE
\* Promise.all over the sub-purges of task p: every one has resolved
allChildrenResolved(tasks, p) ==
    \A c \in 1..Len(tasks) : tasks[c].parent = p => tasks[c].phase = "resolved"

\* a join that takes the outcome of every delete, the first failure or not
deletesAwaitedAlways(tasks, t) == TRUE
\* the Promise.all over the deletes of task t has not settled: once it has
\* rejected, what its other deletes end with is dropped
deletesAwaited(tasks, t) == tasks[t].phase = "deleting"

\* a wait that ends with the first delete that has resolved
anyDeleteResolved(requests, t) ==
    \E i \in 1..Len(requests) :
        requests[i].task = t /\ requests[i].method = "DELETE" /\ requests[i].status = 200

\* Promise.all over the deletes of task t: every one has resolved
allDeletesResolved(requests, t) ==
    \A i \in 1..Len(requests) :
        (requests[i].task = t /\ requests[i].method = "DELETE") => requests[i].status = 200

\* a purge call returns: its parent's Promise.all may resolve in turn
RECURSIVE resolveTask(_, _)
resolveTask(tasks, t) ==
    LET ts == [tasks EXCEPT ![t].phase = "resolved"]
        p == tasks[t].parent
    IN  IF p # 0 /\ ts[p].phase = "recursing" /\ allChildrenResolved(ts, p)
        THEN resolveTask(ts, p) ELSE ts

\* a purge call that catches the failure and returns
catchTask(tasks, t, err) == resolveTask(tasks, t)

\* a purge call throws: the Promise.all of its parent rejects with the same error
RECURSIVE rejectTask(_, _, _)
rejectTask(tasks, t, err) ==
    LET ts == [tasks EXCEPT ![t].phase = "rejected", ![t].error = err]
        p == tasks[t].parent
    IN  IF p # 0 /\ ts[p].phase = "recursing" THEN rejectTask(ts, p, err) ELSE ts

\* a purge that never goes into the folders
skipRecursion(st, t, recursive, token) ==
    [st EXCEPT !.tasks = resolveTask(@, t)]

\* a purge that goes into the folders whatever the flag
alwaysRecurse(st, t, recursive, token) ==
    LET folders == optionalItems(st.tasks[t].listing.Folders)
    IN  IF folders = <<>> THEN [st EXCEPT !.tasks = resolveTask(@, t)]
        ELSE purgeFolders([st EXCEPT !.tasks[t].phase = "recursing"], t, folders, 1, token)

\* purgeDirectory after the await of its deletes
afterDeletes(st, t, recursive, token) ==
    LET folders == optionalItems(st.tasks[t].listing.Folders)
    IN  IF ~recursive \/ folders = <<>> THEN [st EXCEPT !.tasks = resolveTask(@, t)]
        ELSE purgeFolders([st EXCEPT !.tasks[t].phase = "recursing"], t, folders, 1, token)

\* a purge that starts the sub-purges together with the deletes
afterListingEager(st, t, body, recursive, token) ==
    LET files == optionalItems(body.Files)
        folders == optionalItems(body.Folders)
        listed == [st EXCEPT !.tasks[t].listing = body,
                             !.tasks[t].phase = "deleting",
                             !.requests = deleteFiles(@, t, st.tasks[t].dir, files, token)]
    IN  IF recursive /\ folders # <<>>
        THEN purgeFolders([listed EXCEPT !.tasks[t].phase = "recursing"], t, folders, 1, token)
        ELSE IF files = <<>> THEN afterDeletes(listed, t, recursive, token) ELSE listed
\* purgeDirectory after the await of its listing
afterListing(st, t, body, recursive, token) ==
    LET files == optionalItems(body.Files)
        listed == [st EXCEPT !.tasks[t].listing = body,
                             !.tasks[t].phase = "deleting",
                             !.requests = deleteFiles(@, t, st.tasks[t].dir, files, token)]
    IN  IF files = <<>> THEN afterDeletes(listed, t, recursive, token) ELSE listed

(***************************************************************************)
(* FileHandler.uploadDirectory: the calls of uploadDirectoryRecurse as a   *)
(* stack of frames, run up to the next awaited request.                    *)
(* st = [frames, records, errors, requests, status, error].                *)
(***************************************************************************)
Record(localFilePath, isSuccessful, url) ==
    [localFilePath |-> localFilePath, isSuccessful |-> isSuccessful, url |-> url]

\* a call that visits the entries with an extension before the others
FrameFilesFirst(remotePath, localPath, files) ==
    [remotePath |-> remotePath, localPath |-> localPath,
     files |-> SelectSeq(files, LAMBDA name : \E j \in 1..Len(name) : name[j] = ".")
                   \o SelectSeq(files, LAMBDA name : \A j \in 1..Len(name) : name[j] # "."),
     i |-> 1, wait |-> "none"]
\* a call of uploadDirectoryRecurse: its paths, the entries readdirSync gave, the
\* one it is at, and what its loop awaits when that is not a request ("catch":
\* an uploadFile call that threw, "return": a call that has returned)
Frame(remotePath, localPath, files) ==
    [remotePath |-> remotePath, localPath |-> localPath, files |-> files, i |-> 1,
     wait |-> "none"]

\* a traversal that a failed upload ends with a throw
abortOnFailure(st) ==
    [st EXCEPT !.errors = @ + 1, !.status = "rejected", !.error = Failure("Upload", 0),
               !.frames = <<>>]

\* a .catch that sends the upload of the current entry again when its request failed
retryFailure(st) ==
    LET n == Len(st.frames)
        f == st.frames[n]
    IN  IF assertSupportedFileType(f.files[f.i]) THEN [st EXCEPT !.errors = @ + 1]
        ELSE [st EXCEPT !.errors = @ + 1,
                        !.records = Append(@, Record(localFilePathOf(f.localPath, f.files[f.i]), FALSE, NoUrl)),
                        !.frames[n].i = f.i + 1]
\* the .catch of the upload of the current entry, then the next entry
recordFailure(st) ==
    LET n == Len(st.frames)
        f == st.frames[n]
    IN  [st EXCEPT !.errors = @ + 1,
                   !.records = Append(@, Record(localFilePathOf(f.localPath, f.files[f.i]), FALSE, NoUrl)),
                   !.frames[n].i = f.i + 1]

\* a .then that pushes the record without the URL of the response
recordSuccessNoUrl(st, url) ==
    LET n == Len(st.frames)
        f == st.frames[n]
    IN  [st EXCEPT !.records = Append(@, Record(localFilePathOf(f.localPath, f.files[f.i]), TRUE, NoUrl)),
                   !.frames[n].i = f.i + 1]
\* a .then that pushes no record
skipRecord(st, url) ==
    [st EXCEPT !.frames[Len(st.frames)].i = @ + 1]

\* the .then of the upload of the current entry, then the next entry
recordSuccess(st, url) ==
    LET n == Len(st.frames)
        f == st.frames[n]
    IN  [st EXCEPT !.records = Append(@, Record(localFilePathOf(f.localPath, f.files[f.i]), TRUE, url)),
                   !.frames[n].i = f.i + 1]

throwEnumeration(st) ==
    [st EXCEPT !.status = "rejected", !.error = Failure("Enumeration", 0), !.frames = <<>>]

\* a traversal that uploads the files of a sub-directory to the directory above
remoteSameDirectory(remotePath, fileName) == remotePath
\* remotePath.append(fileName): the remote directory of a local sub-directory
remoteSubdirectory(remotePath, fileName) == append(remotePath, Str(fileName))

\* await FileHandler.uploadFile(...): the request is sent and the loop waits
awaitUpload(st, request) == [st EXCEPT !.requests = Append(@, request)]

\* a call that hands the records collected so far to the caller whatever its outcome
returnCollected(st) == st.records
\* return remoteResourceUrls: the value of a call that resolved; a call that
\* threw has none
returnValue(st) == IF st.status = "resolved" THEN st.records ELSE <<>>

\* the await of an uploadFile call that threw before it sent anything: the
\* loop goes on in a later job, with the .catch
awaitRejected(st) == [st EXCEPT !.frames[Len(st.frames)].wait = "catch"]

\* a call of uploadDirectoryRecurse returns: the call above it, which awaits
\* it, goes on in a later job; the first call is awaited by uploadDirectory,
\* which then returns
returnFrom(st) ==
    LET n == Len(st.frames)
    IN  IF n = 1 THEN [st EXCEPT !.frames = <<>>, !.status = "resolved"]
        ELSE [st EXCEPT !.frames = [SubSeq(@, 1, n - 1) EXCEPT ![n - 1].wait = "return"]]

\* the traversal from where it is to its next await, or to its end
RECURSIVE uploadDirectoryRecurse(_, _, _)
uploadDirectoryRecurse(st, fs, token) ==
    IF st.status = "rejected" THEN st
    ELSE IF st.frames = <<>> THEN [st EXCEPT !.status = "resolved"]
    ELSE
    LET n == Len(st.frames)
        f == st.frames[n]
    IN  IF f.i > Len(f.files) THEN returnFrom(st)
        ELSE
        LET fileName == f.files[f.i]
            localFilePath == localFilePathOf(f.localPath, fileName)
            kind == localKind(fs, localFilePath)
            subLocal == append(f.localPath, Str(fileName))
            subRemote == remoteSubdirectory(f.remotePath, fileName)
            sub == readdirSync(fs, condenseEnd(subLocal))
        IN  IF kind = "missing" THEN throwEnumeration(st)
            ELSE IF kind = "dir"
            THEN IF ~sub.ok THEN throwEnumeration(st)
                 ELSE uploadDirectoryRecurse(
                          [st EXCEPT !.frames = Append([@ EXCEPT ![n].i = f.i + 1],
                                                       Frame(subRemote, subLocal, sub.names))],
                          fs, token)
            ELSE IF uploadFileCall(fs, f.localPath, fileName) = "request"
            THEN awaitUpload(st, uploadFileRequest(f.remotePath,
                                                   createReadStream(fs, localFilePath),
                                                   fileName, n, token))
            ELSE awaitRejected(st)

\* the job that follows an await that waited for no request
uploadDirectoryResume(st, fs, token) ==
    LET n == Len(st.frames)
        awaited == st.frames[n].wait
        resumed == [st EXCEPT !.frames[n].wait = "none"]
    IN  uploadDirectoryRecurse(IF awaited = "catch" THEN recordFailure(resumed) ELSE resumed,
                               fs, token)

\* uploadDirectory up to its first awaited request
uploadDirectoryCall(remoteDirectoryPath, localDirectoryPath, fs, token) ==
    LET remotePath == sanitise(remoteDirectoryPath)
        localPath == sanitise(localDirectoryPath)
        top == readdirSync(fs, condenseEnd(localPath))
        st == [frames |-> <<Frame(remotePath, localPath, top.names)>>, records |-> <<>>,
               errors |-> 0, requests |-> <<>>, status |-> "running", error |-> NoError]
    IN  IF ~top.ok THEN throwEnumeration(st) ELSE uploadDirectoryRecurse(st, fs, token)

(***************************************************************************)
(* Inputs of the path operations: every string and every array of          *)
(* elements over a small alphabet, within the bounds.                      *)
(***************************************************************************)
PathChars == {"a", " ", "/"}
PathNumbers == {0, 12}
PathStrings == SeqsUpTo(PathChars, MaxStrLen)
PathElements == {ES(s) : s \in SeqsUpTo(PathChars, MaxElemLen)} \cup {EN(n) : n \in PathNumbers}
PathArrays == SeqsUpTo(PathElements, MaxArrLen)
\* inputs with a backtracking segment
DotInputs ==
    {Str(<<"a", "/", ".", ".", "/">>), Arr(<<ES(<<".", ".">>), ES(<<" ", "a">>)>>)}
\* inputs with line terminators and a no-break space
LineInputs ==
    {Arr(<<ES(<<"a", "\n">>)>>), Arr(<<ES(<<"\r", "\n">>)>>),
     Str(<<"\n", "a", "/", "U+00A0">>)}
PathInputs ==
    {Str(s) : s \in PathStrings} \cup {Arr(a) : a \in PathArrays} \cup DotInputs \cup LineInputs

\* the arguments given to append
PathSuffixes ==
    {Str(<<"b", "/", "c">>), Str(<<" ", "b", "/">>), Arr(<<ES(<<"b", " ">>), EN(7)>>),
     Str(<<>>)}

\* the methods that return a PathArrayable
PathMethods == {"sanitise", "condense", "expand", "append"}
\* the methods that return the string or the array of the path
PathEndMethods == {"condenseEnd", "expandEnd"}

VARIABLES
    pathIn,     \* the value given to new PathArrayable(...)
    pathStage,  \* which call has been made on the object
    pathArg,    \* the argument of the call, for append
    pathClass,  \* which PathArrayable class the object is of
    pathThis,   \* this.path after the call
    pathOut,    \* the value held by the object the call returned
    pathOut2    \* the value of a second call or of the other representation

pathVars == <<pathIn, pathStage, pathArg, pathClass, pathThis, pathOut, pathOut2>>


(***************************************************************************)
(* The state of one igemUploadToolApi instance, of the calls in progress   *)
(* on it, and of the services it talks to.                                 *)
(***************************************************************************)
VARIABLES
    sessionToken,   \* this.sessionToken: 0 is null, a token otherwise
    startCall,      \* the startSession call in progress: its phase and its token
    endCall,        \* the endSession call in progress: its phase and its token
    issued,         \* how many tokens the service has issued
    live,           \* the tokens signed in and not signed out at the service
    active,         \* a startSession has returned and no endSession has since
    op,             \* the public call in progress or last settled, startSession apart
    requests,       \* the requests of that operation, in the order sent
    tasks,          \* the purgeDirectory calls of a purge
    frames,         \* the uploadDirectoryRecurse calls of an upload
    records,        \* remoteResourceUrls
    errors,         \* errors.length
    localFS,        \* the local tree the operation reads
    remoteTree      \* the remote tree the operation works on

apiVars == <<sessionToken, startCall, endCall, issued, live, active, op, requests, tasks,
             frames, records, errors, localFS, remoteTree>>
sessionVars == <<sessionToken, startCall, endCall, issued, live, active>>
opVars == <<op, requests, tasks, frames, records, errors, localFS, remoteTree>>
vars == <<apiVars, pathVars>>

Idle == [phase |-> "idle", tok |-> 0]
NoOp == [kind |-> "none", status |-> "idle", error |-> NoError, recursive |-> FALSE,
         remote |-> Null, local |-> Null,
         token |-> 0, active |-> FALSE, result |-> <<>>]

\* the inputs of the public operations
RemoteInputs == {Arr(<<>>), Str(<<"/", "s">>), Arr(<<ES(<<"s", " ">>), ES(<<"t">>)>>)}
UploadInputs == {Arr(<<>>), Arr(<<ES(<<"s", " ">>), ES(<<"t">>)>>)}
LocalInputs ==
    {Str(<<"l">>), Arr(<<ES(<<" ", "l">>), ES(<<>>)>>), Str(<<"x">>), Str(<<"/", "l">>)}
LocalDirInputs == {Str(<<"l">>), Arr(<<ES(<<"l">>), ES(<<"s">>)>>)}

ApiInit ==
    /\ sessionToken = 0
    /\ startCall = Idle
    /\ endCall = Idle
    /\ issued = 0
    /\ live = {}
    /\ active = FALSE
    /\ op = NoOp
    /\ requests = <<>>
    /\ tasks = <<>>
    /\ frames = <<>>
    /\ records = <<>>
    /\ errors = 0
    /\ localFS = EmptyTree
    /\ remoteTree = EmptyTree

PathIdle ==
    /\ pathIn = Null
    /\ pathStage = "idle"
    /\ pathArg = Null
    /\ pathClass = Null
    /\ pathThis = Null
    /\ pathOut = Null
    /\ pathOut2 = Null

Init == ApiInit /\ PathIdle

(***************************************************************************)
(* Session: startSession and endSession, with AuthHandler's three calls.   *)
(***************************************************************************)
\* startSession up to the await of AuthHandler.signIn
startSession ==
    /\ startCall.phase = "idle"
    /\ issued < MaxSignIns
    /\ startCall' = [phase |-> "signIn", tok |-> 0]
    /\ UNCHANGED <<sessionToken, endCall, issued, live, active, opVars, pathVars>>

\* AuthHandler.signIn returns a token: it is stored, then authenticate is called
signInResolves ==
    /\ startCall.phase = "signIn"
    /\ issued' = issued + 1
    /\ live' = live \cup {issued + 1}
    /\ sessionToken' = issued + 1
    /\ startCall' = [phase |-> "me", tok |-> issued + 1]
    /\ UNCHANGED <<endCall, active, opVars, pathVars>>

\* AuthHandler.signIn throws: status not 201, or no session cookie in the response
signInRejects ==
    /\ startCall.phase = "signIn"
    /\ startCall' = Idle
    /\ UNCHANGED <<sessionToken, endCall, issued, live, active, opVars, pathVars>>

\* AuthHandler.authenticate returns (status 200) or throws
authenticateSettles(ok) ==
    /\ startCall.phase = "me"
    /\ startCall' = Idle
    /\ active' = (ok \/ active)
    /\ UNCHANGED <<sessionToken, endCall, issued, live, opVars, pathVars>>

\* no call is in progress and the outcome of the last one has been taken
Quiet == op.status = "idle"

\* if (this.sessionToken === null) { throw noTokenError; }
noToken(token) == token = 0

\* a public call that throws noTokenError: its promise is rejected
throwNoToken(name) ==
    /\ op' = [NoOp EXCEPT !.kind = name, !.status = "rejected", !.active = active,
                          !.error = Failure("NoSession", 0)]
    /\ UNCHANGED <<sessionVars, requests, tasks, frames, records, errors, localFS, remoteTree,
                   pathVars>>

\* endSession up to the await of AuthHandler.signOut
endSession ==
    /\ endCall.phase = "idle"
    /\ IF noToken(sessionToken)
       THEN IF Quiet THEN throwNoToken("endSession") ELSE UNCHANGED vars
       ELSE /\ endCall' = [phase |-> "signOut", tok |-> sessionToken]
            /\ op' = IF Quiet
                     THEN [NoOp EXCEPT !.kind = "endSession", !.status = "running",
                                       !.token = sessionToken, !.active = active]
                     ELSE op
            /\ UNCHANGED <<sessionToken, startCall, issued, live, active, requests, tasks,
                           frames, records, errors, localFS, remoteTree, pathVars>>

\* the call whose outcome the caller awaits is the endSession in progress
EndSessionAwaited == op.kind = "endSession" /\ op.status = "running"

\* AuthHandler.signOut returns (status 201): the token is cleared
signOutResolves ==
    /\ endCall.phase = "signOut"
    /\ live' = live \ {endCall.tok}
    /\ sessionToken' = 0
    /\ active' = FALSE
    /\ endCall' = Idle
    /\ op' = IF EndSessionAwaited THEN [op EXCEPT !.status = "resolved"] ELSE op
    /\ UNCHANGED <<startCall, issued, requests, tasks, frames, records, errors, localFS,
                   remoteTree, pathVars>>

\* an endSession that forgets the token although the sign-out failed
signOutRejectsClearing ==
    /\ endCall.phase = "signOut"
    /\ endCall' = Idle
    /\ sessionToken' = 0
    /\ active' = FALSE
    /\ op' = IF EndSessionAwaited
             THEN [op EXCEPT !.status = "rejected", !.error = Failure("Transport", 0)]
             ELSE op
    /\ UNCHANGED <<startCall, issued, live, requests, tasks, frames, records, errors, localFS,
                   remoteTree, pathVars>>
\* AuthHandler.signOut throws (status not 201): endSession rejects before
\* the assignment of null
signOutRejects ==
    /\ endCall.phase = "signOut"
    /\ endCall' = Idle
    /\ op' = IF EndSessionAwaited
             THEN [op EXCEPT !.status = "rejected", !.error = Failure("Transport", 0)]
             ELSE op
    /\ UNCHANGED <<sessionToken, startCall, issued, live, active, requests, tasks, frames,
                   records, errors, localFS, remoteTree, pathVars>>

(***************************************************************************)
(* The file operations of igemUploadToolApi.  The caller starts one when   *)
(* the earlier one has finished and none of its requests is in flight.     *)
(***************************************************************************)
NoRequestPending == \A i \in 1..Len(requests) : requests[i].status # Pending

\* the caller has the outcome of the finished operation; nothing of it remains
finish ==
    /\ op.status \in {"resolved", "rejected"}
    /\ NoRequestPending
    /\ op' = NoOp
    /\ requests' = <<>> /\ tasks' = <<>> /\ frames' = <<>> /\ records' = <<>> /\ errors' = 0
    /\ localFS' = EmptyTree /\ remoteTree' = EmptyTree
    /\ UNCHANGED <<sessionVars, pathVars>>

Begin(kind, status, error, recursive, remote, local) ==
    op' = [kind |-> kind, status |-> status, error |-> error, recursive |-> recursive,
           remote |-> remote, local |-> local,
           token |-> sessionToken, active |-> active, result |-> <<>>]

\* a method that reads this.sessionToken again whenever it sends a request
sessionTokenField(o, current) == current
\* the sessionToken parameter of the FileHandler method: the value that
\* this.sessionToken had when the public operation was invoked
sessionTokenArgument(o, current) == o.token

Settled(status, error, result) ==
    op' = [op EXCEPT !.status = status, !.error = error, !.result = result]

\* listDirectory up to the await of its request
listDirectory(remoteDirectoryPath, tree) ==
    /\ Quiet
    /\ IF noToken(sessionToken) THEN throwNoToken("listDirectory")
       ELSE /\ Begin("listDirectory", "running", NoError, FALSE, remoteDirectoryPath, Null)
            /\ requests' = <<listDirectoryRequest(remoteDirectoryPath, 0, sessionToken)>>
            /\ remoteTree' = tree
            /\ tasks' = <<>> /\ frames' = <<>> /\ records' = <<>> /\ errors' = 0
            /\ localFS' = EmptyTree
            /\ UNCHANGED <<sessionVars, pathVars>>

\* deleteFile up to the await of its request
deleteFile(remoteDirectoryPath, fileName) ==
    /\ Quiet
    /\ IF noToken(sessionToken) THEN throwNoToken("deleteFile")
       ELSE /\ Begin("deleteFile", "running", NoError, FALSE, remoteDirectoryPath, Null)
            /\ requests' = <<deleteFileRequest(remoteDirectoryPath, fileName, 0, sessionToken)>>
            /\ tasks' = <<>> /\ frames' = <<>> /\ records' = <<>> /\ errors' = 0
            /\ localFS' = EmptyTree /\ remoteTree' = EmptyTree
            /\ UNCHANGED <<sessionVars, pathVars>>

\* uploadFile up to the await of its request, or to its throw
uploadFile(remoteDirectoryPath, localDirectoryPath, fileName, fs) ==
    /\ Quiet
    /\ IF noToken(sessionToken) THEN throwNoToken("uploadFile")
       ELSE LET call == uploadFileCall(fs, localDirectoryPath, fileName)
            IN  /\ IF call = "request"
                   THEN /\ Begin("uploadFile", "running", NoError, FALSE,
                              remoteDirectoryPath, localDirectoryPath)
                        /\ requests' = <<uploadFileRequest(remoteDirectoryPath,
                                   createReadStream(fs, localFilePathOf(localDirectoryPath, fileName)),
                                   fileName, 0,
                                                           sessionToken)>>
                   ELSE /\ Begin("uploadFile", "rejected", Failure(call, 0), FALSE,
                              remoteDirectoryPath, localDirectoryPath)
                        /\ requests' = <<>>
                /\ frames' = <<Frame(remoteDirectoryPath, localDirectoryPath, <<fileName>>)>>
                /\ tasks' = <<>> /\ records' = <<>> /\ errors' = 0
                /\ localFS' = fs /\ remoteTree' = EmptyTree
                /\ UNCHANGED <<sessionVars, pathVars>>

\* purgeDirectory up to the await of the first listing
purgeDirectory(remoteDirectoryPath, recursive, tree) ==
    /\ Quiet
    /\ IF noToken(sessionToken) THEN throwNoToken("purgeDirectory")
       ELSE LET st == purgeDirectoryCall([tasks |-> <<>>, requests |-> <<>>],
                                         remoteDirectoryPath, 0, sessionToken)
            IN  /\ Begin("purgeDirectory", "running", NoError, recursive, remoteDirectoryPath, Null)
                /\ tasks' = st.tasks
                /\ requests' = st.requests
                /\ remoteTree' = tree
                /\ frames' = <<>> /\ records' = <<>> /\ errors' = 0
                /\ localFS' = EmptyTree
                /\ UNCHANGED <<sessionVars, pathVars>>

\* uploadDirectory up to its first awaited upload, or to its end
uploadDirectory(remoteDirectoryPath, localDirectoryPath, fs) ==
    /\ Quiet
    /\ IF noToken(sessionToken) THEN throwNoToken("uploadDirectory")
       ELSE LET st == uploadDirectoryCall(remoteDirectoryPath, localDirectoryPath, fs,
                                          sessionToken)
            IN  /\ op' = [kind |-> "uploadDirectory", status |-> st.status, error |-> st.error,
                           recursive |-> FALSE, remote |-> remoteDirectoryPath,
                           local |-> localDirectoryPath, token |-> sessionToken,
                           active |-> active, result |-> returnValue(st)]
                /\ frames' = st.frames
                /\ records' = st.records
                /\ errors' = st.errors
                /\ requests' = st.requests
                /\ localFS' = fs
                /\ tasks' = <<>> /\ remoteTree' = EmptyTree
                /\ UNCHANGED <<sessionVars, pathVars>>

(***************************************************************************)
(* Responses.                                                              *)
(***************************************************************************)
\* the purge's promise: that of its first task
purgeSettled(ts) ==
    IF ts[1].phase = "resolved" THEN Settled("resolved", NoError, <<>>)
    ELSE IF ts[1].phase = "rejected" THEN Settled("rejected", ts[1].error, <<>>)
    ELSE UNCHANGED op

\* the response to a listing request
listResponse(i, status, emptyAbsent) ==
    /\ requests[i].method = "GET" /\ requests[i].status = Pending
    /\ LET answered == [requests EXCEPT ![i].status = status]
           body == listingBody(remoteTree, requests[i].directory, emptyAbsent)
           t == requests[i].task
       IN  IF t = 0
           THEN /\ requests' = answered
                /\ IF assertStatusCode(status, 200)
                   THEN Settled("resolved", NoError, <<body.Files, body.Folders>>)
                   ELSE Settled("rejected", Failure("Transport", i), <<>>)
                /\ UNCHANGED tasks
           ELSE LET st == [tasks |-> tasks, requests |-> answered]
                    next == IF assertStatusCode(status, 200)
                            THEN afterListing(st, t, body, op.recursive, sessionTokenArgument(op, sessionToken))
                            ELSE [st EXCEPT !.tasks = rejectTask(@, t, Failure("Transport", i))]
                IN  /\ tasks' = next.tasks
                    /\ requests' = next.requests
                    /\ purgeSettled(next.tasks)
    /\ UNCHANGED <<sessionVars, frames, records, errors, localFS, remoteTree, pathVars>>

\* the response to a delete request
deleteResponse(i, status) ==
    /\ requests[i].method = "DELETE" /\ requests[i].status = Pending
    /\ LET answered == [requests EXCEPT ![i].status = status]
           t == requests[i].task
       IN  IF t = 0
           THEN /\ requests' = answered
                /\ IF assertStatusCode(status, 200)
                   THEN Settled("resolved", NoError, <<>>)
                   ELSE Settled("rejected", Failure("Transport", i), <<>>)
                /\ UNCHANGED tasks
           ELSE LET st == [tasks |-> tasks, requests |-> answered]
                    next == IF ~deletesAwaited(tasks, t) THEN st
                            ELSE IF ~assertStatusCode(status, 200)
                            THEN [st EXCEPT !.tasks = rejectTask(@, t, Failure("Transport", i))]
                            ELSE IF allDeletesResolved(answered, t)
                            THEN afterDeletes(st, t, op.recursive, sessionTokenArgument(op, sessionToken))
                            ELSE st
                IN  /\ tasks' = next.tasks
                    /\ requests' = next.requests
                    /\ purgeSettled(next.tasks)
    /\ UNCHANGED <<sessionVars, frames, records, errors, localFS, remoteTree, pathVars>>

\* the response to an upload request, or the failure of its file stream
uploadResponse(i, status) ==
    /\ requests[i].method = "POST" /\ requests[i].status = Pending
    /\ LET n == Len(frames)
           f == frames[n]
           fileName == f.files[f.i]
           answered == [requests EXCEPT ![i].status = status]
           url == urlOf(requests[i].directory, requests[i].name)
       IN  /\ status \in uploadStatuses(requests[i])
           /\ IF op.kind = "uploadFile"
              THEN /\ requests' = answered
                   /\ IF status = StreamError THEN Settled("rejected", Failure("Stream", i), <<>>)
                      ELSE IF assertStatusCode(status, 201) THEN Settled("resolved", NoError, url)
                      ELSE Settled("rejected", Failure("Transport", i), <<>>)
                   /\ UNCHANGED <<frames, records, errors>>
              ELSE LET st == [frames |-> frames, records |-> records, errors |-> errors,
                              requests |-> answered, status |-> "running", error |-> NoError]
                       next == uploadDirectoryRecurse(
                                   IF status # StreamError /\ assertStatusCode(status, 201)
                                   THEN recordSuccess(st, url) ELSE recordFailure(st),
                                   localFS, sessionTokenArgument(op, sessionToken))
                   IN  /\ frames' = next.frames
                       /\ records' = next.records
                       /\ errors' = next.errors
                       /\ requests' = next.requests
                       /\ Settled(next.status, next.error, returnValue(next))
    /\ UNCHANGED <<sessionVars, tasks, localFS, remoteTree, pathVars>>

\* an uploadDirectory that awaits no request: its loop is at the await of an
\* uploadFile call that threw, or of a call of uploadDirectoryRecurse that
\* has returned
UploadSuspended ==
    /\ op.kind = "uploadDirectory" /\ op.status = "running"
    /\ frames # <<>> /\ frames[Len(frames)].wait # "none"

\* the job in which the loop of uploadDirectoryRecurse goes on after such an await
uploadResume ==
    /\ UploadSuspended
    /\ LET st == [frames |-> frames, records |-> records, errors |-> errors,
                  requests |-> requests, status |-> "running", error |-> NoError]
           next == uploadDirectoryResume(st, localFS, sessionTokenArgument(op, sessionToken))
       IN  /\ frames' = next.frames
           /\ records' = next.records
           /\ errors' = next.errors
           /\ requests' = next.requests
           /\ Settled(next.status, next.error, returnValue(next))
    /\ UNCHANGED <<sessionVars, tasks, localFS, remoteTree, pathVars>>

\* a public call of a file operation
FileOperation ==
    \/ \E p \in RemoteInputs, tree \in FlatRemoteTrees : listDirectory(p, tree)
    \/ \E p \in RemoteInputs, name \in FileNames : deleteFile(p, name)
    \/ \E p \in UploadInputs, l \in LocalDirInputs, name \in FileNames, fs \in FlatLocalTrees :
           uploadFile(p, l, name, fs)
    \/ \E p \in RemoteInputs, recursive \in BOOLEAN, tree \in RemoteTrees :
           purgeDirectory(p, recursive, tree)
    \/ \E p \in UploadInputs, l \in LocalInputs, fs \in LocalTrees : uploadDirectory(p, l, fs)

Response ==
    \/ \E i \in 1..Len(requests), status \in Statuses, emptyAbsent \in BOOLEAN :
           listResponse(i, status, emptyAbsent)
    \/ \E i \in 1..Len(requests), status \in Statuses : deleteResponse(i, status)
    \/ \E i \in 1..Len(requests), status \in Statuses \cup {StreamError} :
           uploadResponse(i, status)

\* a caller that awaits every call before the next one and starts one session
SessionIdle == startCall.phase = "idle" /\ endCall.phase = "idle"

Next ==
    \/ Quiet /\ SessionIdle /\ issued = 0 /\ startSession
    \/ signInResolves
    \/ signInRejects
    \/ \E ok \in BOOLEAN : authenticateSettles(ok)
    \/ Quiet /\ SessionIdle /\ endSession
    \/ signOutResolves
    \/ signOutRejects
    \/ SessionIdle /\ FileOperation
    \/ Response
    \/ uploadResume
    \/ finish

Spec == Init /\ [][Next]_vars

(***************************************************************************)
(* A caller that does not await: startSession and endSession are invoked   *)
(* at any time, also while a file operation or the other session call is   *)
(* in progress, and startSession also when a session is open.              *)
(***************************************************************************)
\* the remote trees of the operations that overlap the session calls
SessionTrees ==
    {t \in RemoteTrees : /\ Cardinality(t.dirs \cup t.files) <= 2
                         /\ \A f \in t.files : f[Len(f)] = NamePng}

\* the remote directory of those operations: the root
SessionInputs == {Arr(<<>>)}

SessionNext ==
    \/ startSession
    \/ signInResolves
    \/ signInRejects
    \/ \E ok \in BOOLEAN : authenticateSettles(ok)
    \/ endSession
    \/ signOutResolves
    \/ signOutRejects
    \/ \E p \in SessionInputs, tree \in SessionTrees : listDirectory(p, tree)
    \/ \E p \in SessionInputs, tree \in SessionTrees : purgeDirectory(p, TRUE, tree)
    \/ \E i \in 1..Len(requests), status \in Statuses : listResponse(i, status, FALSE)
    \/ \E i \in 1..Len(requests), status \in Statuses : deleteResponse(i, status)
    \/ finish

SpecSession == Init /\ [][SessionNext]_vars

(***************************************************************************)
(* uploadDirectory on a local directory that other processes change while  *)
(* the traversal awaits its uploads: readdirSync and statSync read the     *)
(* file system when they are called.                                       *)
(***************************************************************************)
\* the state after a successful startSession
LocalInit ==
    /\ sessionToken = 1
    /\ startCall = Idle
    /\ endCall = Idle
    /\ issued = 1
    /\ live = {1}
    /\ active = TRUE
    /\ op = NoOp
    /\ requests = <<>>
    /\ tasks = <<>>
    /\ frames = <<>>
    /\ records = <<>>
    /\ errors = 0
    /\ localFS = EmptyTree
    /\ remoteTree = EmptyTree
    /\ PathIdle

\* the file or the directory e, with what is below it, is removed from the
\* local directory while an upload is awaited
localEntryRemoved(e) ==
    /\ op.kind = "uploadDirectory" /\ op.status = "running"
    /\ e \in localFS.files \cup localFS.dirs
    /\ localFS' = [dirs |-> {d \in localFS.dirs : ~IsPrefix(e, d)},
                   files |-> {f \in localFS.files : ~IsPrefix(e, f)}]
    /\ UNCHANGED <<sessionVars, op, requests, tasks, frames, records, errors, remoteTree,
                   pathVars>>

\* the local directory of the mount, and one that does not exist
ChangingLocalInputs == {Str(<<"l">>), Str(<<"x">>)}

LocalNext ==
    \/ \E p \in SessionInputs, l \in ChangingLocalInputs, fs \in LocalTrees :
           uploadDirectory(p, l, fs)
    \/ \E e \in localFS.files \cup localFS.dirs : localEntryRemoved(e)
    \/ \E i \in 1..Len(requests), status \in Statuses \cup {StreamError} :
           uploadResponse(i, status)
    \/ uploadResume
    \/ finish

SpecLocal == LocalInit /\ [][LocalNext]_vars

(***************************************************************************)
(* uploadFile applied to file names of every kind of extension, and        *)
(* deleteFile to names that are padded with blanks or made of them.        *)
(***************************************************************************)
TypeStems == {<<>>, <<"a">>, <<"a", ".", "b">>, <<"p", "n", "g">>}
TypeExtensions ==
    FILE_TYPES \cup
    {<<"P", "N", "G">>, <<"P", "n", "g">>, <<"J", "P", "G">>, <<"S", "v", "G">>,
     <<"W", "E", "B", "P">>, <<"W", "O", "F", "F", "2">>, <<"f", "o", "l", "d", "e", "r">>,
     <<"F", "O", "L", "D", "E", "R">>, <<"t", "x", "t">>, <<"p", "n">>, <<"p", "n", "g", " ">>,
     <<"w", "o", "f", "f">>, <<"g">>, <<>>}
\* names with a last '.', and names without any
TypeNames ==
    {stem \o <<".">> \o e : stem \in TypeStems, e \in TypeExtensions} \cup TypeExtensions
TypeLocalInputs == {Str(<<"l">>)}

\* the local directory with the file, and without it
TypeTrees(name) ==
    IF name \in {<<>>, <<".">>, <<".", ".">>} THEN {EmptyTree}
    ELSE {EmptyTree, [dirs |-> {}, files |-> {<<name>>}]}

\* names as a listing or a caller may give them to deleteFile
DeleteNames ==
    {NamePng, <<" ", "a", ".", "p", "n", "g">>, <<"a", ".", "p", "n", "g", " ">>, <<>>, <<" ">>,
     <<"a", " ", "b">>}

TypeNext ==
    \/ \E p \in RemoteInputs, name \in DeleteNames : deleteFile(p, name)
    \/ \E i \in 1..Len(requests), status \in Statuses : deleteResponse(i, status)
    \/ \E p \in SessionInputs, l \in TypeLocalInputs, name \in TypeNames :
           \E fs \in TypeTrees(name) : uploadFile(p, l, name, fs)
    \/ \E i \in 1..Len(requests), status \in Statuses \cup {StreamError} :
           uploadResponse(i, status)
    \/ finish

SpecType == LocalInit /\ [][TypeNext]_vars

(***************************************************************************)
(* uploadDirectory and purgeDirectory with collaborators that answer:      *)
(* every request that was sent gets its response (axios settles every      *)
(* call, the file streams end or fail).                                    *)
(***************************************************************************)
FairLocalInputs == {Str(<<"l">>)}

\* the answers of the service in the order in which they are tried: whether a
\* response is possible is settled by the first one found, and a refusal
\* ends the call it answers at once
AnswerOrder == <<201, 200>>
AnswerIndexes == 1..Len(AnswerOrder)

\* the response to a request of a purge
PurgeResponse ==
    \/ \E i \in 1..Len(requests), k \in AnswerIndexes, emptyAbsent \in BOOLEAN :
           listResponse(i, AnswerOrder[k], emptyAbsent)
    \/ \E i \in 1..Len(requests), k \in AnswerIndexes : deleteResponse(i, AnswerOrder[k])

\* the response to an upload, or the failure of its stream
UploadAnswer ==
    \E i \in 1..Len(requests), status \in Statuses \cup {StreamError} :
        uploadResponse(i, status)

FairNext ==
    \/ \E p \in SessionInputs, recursive \in BOOLEAN, tree \in RemoteTrees :
           purgeDirectory(p, recursive, tree)
    \/ \E p \in SessionInputs, l \in FairLocalInputs, fs \in LocalTrees :
           uploadDirectory(p, l, fs)
    \/ PurgeResponse
    \/ UploadAnswer
    \/ uploadResume
    \/ finish

\* an upload can be answered exactly when one is pending: a stream failure is
\* an answer that every pending upload can get
UploadPending == \E i \in 1..Len(requests) :
                     requests[i].method = "POST" /\ requests[i].status = Pending

\* weak fairness of UploadAnswer, with its enabling condition written as the
\* state predicate UploadPending
UploadsAnswered == []<>(~UploadPending) \/ []<><<UploadAnswer>>_vars

\* weak fairness of uploadResume, whose enabling condition is UploadSuspended:
\* the job queue runs every job
JobsRun == []<>(~UploadSuspended) \/ []<><<uploadResume>>_vars

SpecFair ==
    LocalInit /\ [][FairNext]_vars /\ WF_vars(PurgeResponse) /\ UploadsAnswered /\ JobsRun

(***************************************************************************)
(* The path operations applied to every input.                             *)
(***************************************************************************)
PathInit ==
    /\ ApiInit
    /\ pathIn \in PathInputs
    /\ pathStage = "input"
    /\ pathArg = Null
    /\ pathClass = Null
    /\ pathThis = Null
    /\ pathOut = Null
    /\ pathOut2 = Null

\* new PathArrayable(input).sanitise()
PathSanitise ==
    /\ pathStage = "input"
    /\ pathOut' = sanitise(pathIn)
    /\ pathStage' = "sanitised"
    /\ UNCHANGED <<pathIn, pathArg, pathClass, pathThis, pathOut2, apiVars>>

\* .sanitise() applied to the result of a sanitise()
PathSanitiseAgain ==
    /\ pathStage = "sanitised"
    /\ pathOut2' = sanitise(pathOut)
    /\ pathStage' = "resanitised"
    /\ UNCHANGED <<pathIn, pathArg, pathClass, pathThis, pathOut, apiVars>>

\* an array and the string of its elements joined by "/", each sanitised
PathConverge ==
    /\ pathStage = "input"
    /\ pathIn.t = "array"
    /\ pathOut' = sanitise(pathIn)
    /\ pathOut2' = sanitise(condense(pathIn))
    /\ pathStage' = "converged"
    /\ UNCHANGED <<pathIn, pathArg, pathClass, pathThis, apiVars>>

\* the directory parameter of a request built from the path
PathDirectory ==
    /\ pathStage = "input"
    /\ pathOut' = sanitise(pathIn)
    /\ pathOut2' = directoryOf(pathIn)
    /\ pathStage' = "requested"
    /\ UNCHANGED <<pathIn, pathArg, pathClass, pathThis, apiVars>>

\* const p = new PathArrayable(input); p.<method>(argument): the object
\* returned and the value p holds afterwards
PathCall ==
    /\ pathStage = "input"
    /\ \E class \in PathClasses, method \in PathMethods \cup PathEndMethods :
        \E argument \in (IF method = "append" THEN PathSuffixes ELSE {Null}) :
            /\ pathArg' = argument
            /\ pathClass' = class
            /\ pathOut' = returned(method, pathIn, argument)
            /\ pathThis' = heldAfter(class, method, pathIn, argument)
            /\ pathStage' = method
    /\ UNCHANGED <<pathIn, pathOut2, apiVars>>

\* a sanitised list, its joined string split again, and its joined string
\* sanitised
PathRoundTrip ==
    /\ pathStage = "input"
    /\ pathIn.t = "array"
    /\ pathThis' = sanitise(pathIn)
    /\ pathOut' = expand(condense(sanitise(pathIn)))
    /\ pathOut2' = sanitise(condense(sanitise(pathIn)))
    /\ pathStage' = "roundtrip"
    /\ UNCHANGED <<pathIn, pathArg, pathClass, apiVars>>

PathNext ==
    \/ PathRoundTrip
    \/ PathSanitise
    \/ PathSanitiseAgain
    \/ PathConverge
    \/ PathDirectory
    \/ PathCall

SpecPath == PathInit /\ [][PathNext]_vars

(***************************************************************************)
(* Properties of the operations.                                           *)
(***************************************************************************)
GuardedOperations ==
    {"listDirectory", "uploadFile", "deleteFile", "uploadDirectory", "purgeDirectory",
     "endSession"}

RequestsWith(method) == {i \in 1..Len(requests) : requests[i].method = method}
FailedRequests == {i \in 1..Len(requests) : requests[i].status \notin {Pending, 200}}

\* the extension of the name is outside the accepted set
Unsupported(fileName) == extensionOf(fileName) \notin FILE_TYPES

\* the last segment of a local file path
fileNameOfPath(s) == LET parts == split(s, "/") IN parts[Len(parts)]

\* the directory parameter that names the remote directory with segments d
DirectoryParameter(d) ==
    IF d = <<>> THEN Null ELSE Str(join([i \in 1..Len(d) |-> ES(d[i])], "/"))

\* C1: a public operation other than startSession that is invoked while no
\* session is active (no startSession has returned, or an endSession has
\* returned since) fails with the no-session error, sends no request and
\* leaves the state of the instance as it was.
C1_NoSessionGuard ==
    (op.kind \in GuardedOperations /\ ~op.active) =>
        /\ op.status = "rejected"
        /\ op.error = Failure("NoSession", 0)
        /\ requests = <<>> /\ tasks = <<>> /\ frames = <<>> /\ records = <<>>

UploadDirectoryDone == op.kind = "uploadDirectory" /\ op.status = "resolved"

\* C2: a completed uploadDirectory returns exactly one record per regular file
\* of the local tree: as many records as files, no two with the same
\* localFilePath, each localFilePath naming a file of the tree, none a directory.
C2_UploadCardinality ==
    UploadDirectoryDone =>
        /\ Len(records) = Cardinality(localFS.files)
        /\ \A i, j \in 1..Len(records) :
               records[i].localFilePath = records[j].localFilePath => i = j
        /\ \A i \in 1..Len(records) : localKind(localFS, records[i].localFilePath) = "file"

\* a tree with a subdirectory holding a file, uploaded with a success and a failure
C2_Witness ==
    /\ UploadDirectoryDone
    /\ Len(records) = 2
    /\ \E f \in localFS.files : Len(f) = 2
    /\ \E i, j \in 1..Len(records) : records[i].isSuccessful /\ ~records[j].isSuccessful

\* the upload request of the file of record i: the requests are in record order
AttemptOf(i) ==
    Cardinality({k \in 1..i : ~Unsupported(fileNameOfPath(records[k].localFilePath))})

UploadFailed(i) ==
    \/ Unsupported(fileNameOfPath(records[i].localFilePath))
    \/ requests[AttemptOf(i)].status # 201

\* C3: a failed upload of a file (extension not accepted, file stream failed,
\* status other than 201) never rejects uploadDirectory; it resolves with one
\* record per file, every file with an accepted extension has been attempted,
\* the k files that failed have records {isSuccessful: false, url: null} and
\* the other N - k have successful records with the URL returned.
C3_PartialFailure ==
    /\ (op.kind = "uploadDirectory" /\ errors > 0) => op.status # "rejected"
    /\ UploadDirectoryDone =>
        /\ Len(records) = Cardinality(localFS.files)
        /\ Len(requests) = Cardinality({f \in localFS.files : ~Unsupported(f[Len(f)])})
        /\ \A i \in 1..Len(records) :
               IF UploadFailed(i)
               THEN ~records[i].isSuccessful /\ records[i].url = NoUrl
               ELSE /\ records[i].isSuccessful
                    /\ records[i].url = urlOf(requests[AttemptOf(i)].directory,
                                              requests[AttemptOf(i)].name)
                    /\ records[i].url # NoUrl
        /\ errors = Cardinality({i \in 1..Len(records) : UploadFailed(i)})
        /\ Cardinality({i \in 1..Len(records) : ~records[i].isSuccessful}) = errors
        /\ Cardinality({i \in 1..Len(records) : records[i].isSuccessful})
               = Len(records) - errors

\* a flat directory of three files, one of them with an extension not accepted
C3_Witness ==
    /\ UploadDirectoryDone
    /\ localFS = [dirs |-> {}, files |-> {<<NamePng>>, <<NameTxt>>, <<NameSvg>>}]
    /\ Len(records) = 3
    /\ errors = 1
    /\ \E i \in 1..3 : ~records[i].isSuccessful /\ records[i].url = NoUrl
                         /\ fileNameOfPath(records[i].localFilePath) = NameTxt

\* a purgeDirectory call that has passed the session guard
Purging == op.kind = "purgeDirectory" /\ tasks # <<>>
PurgeDone == Purging /\ op.status = "resolved"

\* the segments of the directory a purge was called on
PurgeBase == remoteKey(directoryOf(tasks[1].dir))

\* the directories and the files a recursive purge of PurgeBase covers
PurgeSubtreeDirs == {PurgeBase} \cup {d \in remoteTree.dirs : IsPrefix(PurgeBase, d)}
PurgeSubtreeFiles == {f \in remoteTree.files : IsPrefix(PurgeBase, Parent(f))}

\* a delete of file f, sent with the directory that holds it, ended with status 200
Deleted(f) ==
    \E i \in RequestsWith("DELETE") :
        /\ requests[i].directory = DirectoryParameter(Parent(f))
        /\ requests[i].name = f[Len(f)]
        /\ requests[i].status = 200

\* C4: when purgeDirectory(D, recursive) has returned, every file a listing
\* of the purge showed has a delete that ended with status 200: every file of D,
\* and with recursive = true every file of every directory below D.
C4_PurgeGuarantee ==
    PurgeDone =>
        /\ \A t \in 1..Len(tasks) :
               \A k \in 1..Len(optionalItems(tasks[t].listing.Files)) :
                   \E i \in RequestsWith("DELETE") :
                       /\ requests[i].task = t
                       /\ requests[i].name = optionalItems(tasks[t].listing.Files)[k]
                       /\ requests[i].directory = directoryOf(tasks[t].dir)
                       /\ requests[i].status = 200
        /\ \A f \in remoteTree.files :
               (IF op.recursive THEN f \in PurgeSubtreeFiles ELSE Parent(f) = PurgeBase)
                   => Deleted(f)

\* a recursive purge that returned after deleting a file of D and a file of a
\* subdirectory of D
C4_Witness ==
    /\ PurgeDone
    /\ op.recursive
    /\ \E f, g \in remoteTree.files :
           /\ Parent(f) = PurgeBase /\ Deleted(f)
           /\ Parent(g) # PurgeBase /\ g \in PurgeSubtreeFiles /\ Deleted(g)

\* C5: a purge with recursive = false sends exactly one listing, that of its
\* directory, then one delete per file the listing shows (none when the
\* listing has no file collection, none before or without a listing with
\* status 200), every delete for that directory: nothing is sent for a
\* subdirectory.
C5_NonRecursivePurgeCalls ==
    (Purging /\ ~op.recursive) =>
        /\ Len(tasks) = 1
        /\ RequestsWith("GET") = {1}
        /\ requests[1].directory = DirectoryParameter(PurgeBase)
        /\ \A i \in RequestsWith("DELETE") : requests[i].directory = requests[1].directory
        /\ IF requests[1].status = 200
           THEN /\ [i \in 1..(Len(requests) - 1) |-> requests[i + 1].name]
                       = remoteFiles(remoteTree, requests[1].directory)
                /\ (~tasks[1].listing.Files.defined => Len(requests) = 1)
           ELSE Len(requests) = 1

\* a directory with two files and one subdirectory, purged without recursion
C5_Witness ==
    /\ PurgeDone
    /\ ~op.recursive
    /\ Len(remoteFiles(remoteTree, requests[1].directory)) = 2
    /\ Len(remoteFolders(remoteTree, requests[1].directory)) = 1
    /\ Cardinality(RequestsWith("DELETE")) = 2
    /\ Cardinality(RequestsWith("GET")) = 1

\* C6: a purge with recursive = true that has returned sent exactly one listing
\* per directory of the subtree (its directory and every directory below it,
\* each named by the path of its parent with the folder name appended) and
\* exactly one delete per file of the subtree, with the directory holding the file.
C6_RecursivePurgeCalls ==
    (PurgeDone /\ op.recursive) =>
        /\ Cardinality(RequestsWith("GET")) = Cardinality(PurgeSubtreeDirs)
        /\ \A d \in PurgeSubtreeDirs :
               \E i \in RequestsWith("GET") : requests[i].directory = DirectoryParameter(d)
        /\ Cardinality(RequestsWith("DELETE")) = Cardinality(PurgeSubtreeFiles)
        /\ \A f \in PurgeSubtreeFiles :
               \E i \in RequestsWith("DELETE") :
                   /\ requests[i].directory = DirectoryParameter(Parent(f))
                   /\ requests[i].name = f[Len(f)]
        /\ \A c \in 1..Len(tasks) :
               tasks[c].parent # 0 =>
                   \E name \in FolderNames :
                       remoteKey(directoryOf(tasks[c].dir))
                           = Append(remoteKey(directoryOf(tasks[tasks[c].parent].dir)), name)

\* a recursive purge of a directory that is not the root, with a file and a
\* subdirectory that holds a file
C6_Witness ==
    /\ PurgeDone
    /\ op.recursive
    /\ PurgeBase # <<>>
    /\ Cardinality(PurgeSubtreeDirs) = 2
    /\ Cardinality(RequestsWith("GET")) = 2
    /\ Cardinality(RequestsWith("DELETE")) = 1
    /\ \E f \in PurgeSubtreeFiles : Len(f) = 3

\* C7: a listing or a delete of a purge that fails rejects purgeDirectory with
\* that failure, and a task whose delete failed never purges a subdirectory.
C7_PurgeFailure ==
    Purging =>
        /\ FailedRequests # {} =>
               /\ op.status = "rejected"
               /\ op.error.type = "Transport"
               /\ op.error.req \in FailedRequests
        /\ \A i \in FailedRequests :
               requests[i].method = "DELETE" =>
                   \A c \in 1..Len(tasks) : tasks[c].parent # requests[i].task

\* a recursive purge rejected by the failed delete of a file whose directory
\* has a subdirectory
C7_Witness ==
    /\ Purging
    /\ op.recursive
    /\ op.status = "rejected"
    /\ requests[op.error.req].method = "DELETE"
    /\ optionalItems(tasks[requests[op.error.req].task].listing.Folders) # <<>>
    /\ NoRequestPending

\* the local path and the name of the file of an uploadFile call
UploadFileCalled == op.kind = "uploadFile" /\ frames # <<>>
UploadFileName == frames[1].files[1]
UploadFilePath == localFilePathOf(frames[1].localPath, UploadFileName)

\* C8: uploadFile of a name whose extension is not accepted is rejected and
\* sends no request (with the unsupported-type error when the file is there);
\* in uploadDirectory no upload request is sent for such a file and its record
\* is a failed one without URL.
C8_UnsupportedExtension ==
    /\ (UploadFileCalled /\ Unsupported(UploadFileName)) =>
           /\ op.status = "rejected"
           /\ requests = <<>>
           /\ localKind(localFS, UploadFilePath) = "file" => op.error.type = "UnsupportedType"
    /\ op.kind = "uploadDirectory" =>
           /\ \A i \in 1..Len(requests) : ~Unsupported(requests[i].name)
           /\ \A i \in 1..Len(records) :
                  Unsupported(fileNameOfPath(records[i].localFilePath)) =>
                      ~records[i].isSuccessful /\ records[i].url = NoUrl

\* uploadFile of a file that is there and has an extension that is not accepted
C8_Witness ==
    /\ UploadFileCalled
    /\ UploadFileName = NameTxt
    /\ localKind(localFS, UploadFilePath) = "file"
    /\ op.status = "rejected"
    /\ op.error.type = "UnsupportedType"

\* C9: uploadFile of a local file that does not exist is rejected with the
\* not-found error and sends no request, whatever the extension of the name.
C9_MissingLocalFile ==
    (UploadFileCalled /\ localKind(localFS, UploadFilePath) = "missing") =>
        /\ op.status = "rejected"
        /\ op.error.type = "NotFound"
        /\ requests = <<>>

\* C10: sanitising an already sanitised path returns the same path value
\* (same representation, same segments), for every string and array input.
C10_SanitiseIdempotent ==
    pathStage = "resanitised" => pathOut2 = pathOut

\* a case where the first sanitise changed the input and the second ran
C10_Witness ==
    /\ pathStage = "resanitised"
    /\ pathOut # pathIn
    /\ pathIn.t = "array"
    /\ Len(pathOut.a) = 1

(***************************************************************************)
(* Properties of the path operations.                                      *)
(***************************************************************************)
\* the held path has length 0: the test getNullablePath makes
isEmptyPath(p) == IF p.t = "string" THEN p.s = <<>> ELSE p.a = <<>>

\* the segments of a held path, as texts: none when empty, else its expansion
segmentsOf(p) ==
    IF isEmptyPath(p) THEN <<>>
    ELSE [i \in 1..Len(expandEnd(p)) |-> toString(expandEnd(p)[i])]

\* no element of the array contains the separator
SlashFree(a) == \A i \in 1..Len(a) : \A j \in 1..Len(toString(a[i])) : toString(a[i])[j] # "/"

\* C11 as stated: for every segment list L (elements strings or numbers,
\* padded or empty), sanitise(L) and sanitise(L joined by "/") have the same
\* canonical segments.
C11_RepresentationsConverge ==
    pathStage = "converged" => segmentsOf(pathOut) = segmentsOf(pathOut2)

\* C11 as amended: for every segment list L none of whose elements contains
\* "/", sanitise(L) and sanitise(L joined by "/") have the same canonical
\* segments, numbers being coerced to their decimal text; an element that
\* contains "/" stays one segment in the list and is split in the string.
C11_SlashFreeConverge ==
    (pathStage = "converged" /\ SlashFree(pathIn.a)) =>
        segmentsOf(pathOut) = segmentsOf(pathOut2)

C11_Witness ==
    /\ pathStage = "converged"
    /\ pathIn = Arr(<<ES(<<" ", "a">>), EN(12)>>)
    /\ pathOut = Arr(<<ES(<<"a">>), ES(<<"1", "2">>)>>)
    /\ pathOut2 = Str(<<"a", "/", "1", "2">>)

\* every segment of the input is empty or made of white space
AllBlank(p) ==
    \A i \in 1..Len(expandEnd(p)) :
        \A j \in 1..Len(toString(expandEnd(p)[i])) : toString(expandEnd(p)[i])[j] \in WhiteSpace

\* the inputs the specification names as the root
RootInputs ==
    {Str(<<>>), Str(<<"/">>), Str(<<"/", "/", "/">>), Arr(<<>>), Arr(<<ES(<<>>)>>)}

\* C12: "", "/", "///", [] and [""], and every input whose segments are all
\* empty or white space, sanitise to the empty path; the directory parameter
\* of a request built from a path is null exactly when the sanitised path has
\* no segment, and its segments joined by "/" otherwise.
C12_RootCollapsing ==
    pathStage = "requested" =>
        /\ (pathIn \in RootInputs \/ AllBlank(pathIn)) => isEmptyPath(pathOut)
        /\ pathOut2 = Null <=> segmentsOf(pathOut) = <<>>
        /\ pathOut2 = DirectoryParameter(segmentsOf(pathOut))

C12_Witness ==
    /\ pathStage = "requested"
    /\ pathIn = Str(<<"/", "/", "/">>)
    /\ pathOut = Str(<<>>)
    /\ pathOut2 = Null

\* the path is what sanitise would make of it, and is not empty
Canonical(p) == sanitise(p) = p /\ ~isEmptyPath(p)

\* C13 as stated: for every base and suffix, sanitised or not, append returns
\* a canonical path whose segments are those of sanitise(base) followed by
\* those of sanitise(suffix).
C13_AppendCanonical ==
    pathStage = "append" =>
        segmentsOf(pathOut) = segmentsOf(sanitise(pathIn)) \o segmentsOf(sanitise(pathArg))

\* C13 as amended: append does not sanitise; for every base and suffix,
\* sanitising what append returns gives the path whose segments are those of
\* sanitise(base) followed by those of sanitise(suffix), and append returns
\* that path itself when base and suffix are both canonical and not empty.
C13_AppendThenSanitise ==
    pathStage = "append" =>
        LET expected == segmentsOf(sanitise(pathIn)) \o segmentsOf(sanitise(pathArg))
        IN  /\ segmentsOf(sanitise(pathOut)) = expected
            /\ (Canonical(pathIn) /\ Canonical(pathArg)) => segmentsOf(pathOut) = expected

C13_Witness ==
    /\ pathStage = "append"
    /\ pathIn = Str(<<"a">>)
    /\ pathArg = Str(<<"b", "/", "c">>)
    /\ pathOut = Arr(<<ES(<<"a">>), ES(<<"b">>), ES(<<"c">>)>>)

\* C14: sanitise, condense, expand and append never change the value held by
\* the object they are called on: after p.sanitise(), p.condense(),
\* p.expand() or p.append(q), p.path is what it was, whatever the call
\* returned, so a path shared by several callers reads the same afterwards.
\* Stated of both PathArrayable classes of the repository.
C14_PathImmutable ==
    pathStage \in PathMethods => pathThis = pathIn

\* the segments of an input as given, as texts
rawSegments(p) == [i \in 1..Len(expandEnd(p)) |-> toString(expandEnd(p)[i])]

\* a text made of white space only, the empty text included
Blank(t) == \A j \in 1..Len(t) : t[j] \in WhiteSpace

\* out is in with the blank segments left out and the others trimmed, in order
RECURSIVE IsKept(_, _)
IsKept(out, in) ==
    IF in = <<>> THEN out = <<>>
    ELSE IF Blank(in[1]) THEN IsKept(out, Tail(in))
    ELSE out # <<>> /\ out[1] = trim(in[1]) /\ IsKept(Tail(out), Tail(in))

\* C16: the result of sanitise has no empty and no white-space-only segment,
\* no segment begins or ends with white space, and its segments are the
\* non-blank segments of the input, trimmed, in their original order and with
\* their content as given: ".." is kept as a segment, not resolved.
C16_CanonicalPath ==
    pathStage = "sanitised" =>
        LET out == segmentsOf(pathOut)
        IN  /\ \A i \in 1..Len(out) :
                   /\ ~Blank(out[i])
                   /\ out[i][1] \notin WhiteSpace
                   /\ out[i][Len(out[i])] \notin WhiteSpace
            /\ IsKept(out, rawSegments(pathIn))

C16_Witness ==
    /\ pathStage = "sanitised"
    /\ pathIn = Str(<<"a", "/", ".", ".", "/">>)
    /\ pathOut = Str(<<"a", "/", ".", ".">>)

(***************************************************************************)
(* Properties of the requests of the file operations.                      *)
(***************************************************************************)
\* the segments of the sanitised remote path given to the operation
RemoteBase == segmentsOf(sanitise(op.remote))

\* the request uploads the regular file f of the local tree to the remote
\* directory that lies under the base as f lies under the local directory
Mirrors(q, f) ==
    /\ q.method = "POST"
    /\ q.name = f[Len(f)]
    /\ q.directory = DirectoryParameter(RemoteBase \o SubSeq(f, 1, Len(f) - 1))

\* C15: during and after uploadDirectory, the upload request of the regular
\* file at the relative directory r carries directory = the sanitised remote
\* base followed by r, joined by "/" (null when that is empty), and the
\* file's own name; every request is such an upload: none creates a folder.
C15_UploadMirrors ==
    op.kind = "uploadDirectory" =>
        /\ \A i \in 1..Len(records) :
               ~Unsupported(fileNameOfPath(records[i].localFilePath)) =>
                   Mirrors(requests[AttemptOf(i)], localRel(records[i].localFilePath))
        /\ \A k \in 1..Len(requests) : \E f \in localFS.files : Mirrors(requests[k], f)

C15_Witness ==
    /\ UploadDirectoryDone
    /\ op.remote = Arr(<<ES(<<"s", " ">>), ES(<<"t">>)>>)
    /\ <<NamePng>> \in localFS.files
    /\ <<<<"s">>, NamePng>> \in localFS.files
    /\ \E k \in 1..Len(requests) :
           /\ requests[k].directory = Str(<<"s", "/", "t", "/", "s">>)
           /\ requests[k].name = NamePng
           /\ requests[k].status = 201

\* a call of one request whose response has arrived
SingleAnswered ==
    /\ op.kind \in {"listDirectory", "deleteFile", "uploadFile"}
    /\ requests # <<>>
    /\ requests[1].status # Pending

\* the status that the operation requires of its response
ExpectedStatus == IF op.kind = "uploadFile" THEN 201 ELSE 200

\* C17: listDirectory and deleteFile fail exactly when the status of the
\* response is not 200, and uploadFile, once its request is sent, exactly when
\* it is not 201; a failed call rejects with the transport error (or the
\* failure of the file stream) and has no result, the others resolve.
C17_StatusContract ==
    SingleAnswered =>
        /\ op.status = "rejected" <=> requests[1].status # ExpectedStatus
        /\ op.status = "resolved" <=> requests[1].status = ExpectedStatus
        /\ op.status = "rejected" =>
               /\ op.result = <<>>
               /\ op.error = Failure(IF requests[1].status = StreamError THEN "Stream"
                                     ELSE "Transport", 1)

C17_Witness ==
    /\ SingleAnswered
    /\ op.kind = "uploadFile"
    /\ requests[1].status = 200
    /\ op.status = "rejected"
    /\ op.error = Failure("Transport", 1)

\* the call a request makes: what is asked, of which directory, for which file
CallOf(q) == <<q.method, q.directory, q.name>>

\* C18: no operation sends a call again, failed or not: within an operation
\* no two requests make the same call, so each directory is listed at most
\* once and each file deleted or uploaded at most once, and listDirectory,
\* deleteFile and uploadFile send one request at most.
C18_NoRetry ==
    /\ \A i, j \in 1..Len(requests) : CallOf(requests[i]) = CallOf(requests[j]) => i = j
    /\ op.kind \in {"listDirectory", "deleteFile", "uploadFile"} => Len(requests) <= 1

\* an upload of two files that ended after the request of one of them failed
C18_Witness ==
    /\ UploadDirectoryDone
    /\ Len(requests) = 2
    /\ requests[1].status # 201
    /\ requests[2].status = 201

\* the requests in flight
InFlight == {k \in 1..Len(requests) : requests[k].status = Pending}

\* the regular file the innermost uploadDirectoryRecurse call is at
CurrentFile ==
    LET f == frames[Len(frames)]
    IN  localRel(localFilePathOf(f.localPath, f.files[f.i]))

\* C19: the uploads of the regular files of one local directory are
\* started without awaiting each other, so while the upload of one of them is
\* in flight the uploads of its siblings that pass the local checks have been
\* started too; and only the innermost directory has uploads in flight.
C19_UploadFanOut ==
    op.kind = "uploadDirectory" =>
        \A k \in InFlight : \A f, g \in localFS.files :
            (Mirrors(requests[k], f) /\ Parent(g) = Parent(f) /\ ~Unsupported(g[Len(g)])) =>
                /\ \E j \in 1..Len(requests) : Mirrors(requests[j], g)
                /\ Parent(f) = Parent(CurrentFile)

\* the purgeDirectory calls still running
RunningTasks == {t \in 1..Len(tasks) : tasks[t].phase \in {"listing", "deleting", "recursing"}}

\* the purge has rejected to its caller
PurgeRejected == Purging /\ op.status = "rejected"

\* the call that sends request k of the next state: the task of a delete, the
\* parent of the task of a listing
SenderOf(k) ==
    IF requests'[k].method = "GET" THEN tasks'[requests'[k].task].parent
    ELSE requests'[k].task

\* C20 as stated: once purgeDirectory has rejected to its caller, no further
\* listing or delete call is sent on behalf of that purge.
C20_SiblingsAborted ==
    [][(PurgeRejected /\ Purging') => Len(requests') = Len(requests)]_vars

\* C20 as amended: when a member of a join-all batch fails, purgeDirectory
\* rejects with that failure and the rejection is final; the siblings that
\* have not settled are not aborted: from then on every listing or delete is
\* sent by a sub-purge that was still running, never by the call that failed
\* or by a call that has rejected.
C20_RejectionFinal ==
    [][(PurgeRejected /\ Purging') =>
           /\ op' = op
           /\ \A k \in (Len(requests) + 1)..Len(requests') :
                  /\ SenderOf(k) \in RunningTasks
                  /\ SenderOf(k) # requests[op.error.req].task]_vars

\* a purge rejected by one sub-purge while another is still running with a
\* request in flight
C20_Witness ==
    /\ PurgeRejected
    /\ op.recursive
    /\ \E t \in RunningTasks :
           /\ t # 1
           /\ \E k \in 1..Len(requests) :
                  requests[k].task = t /\ requests[k].status = Pending

(***************************************************************************)
(* Properties of the order of the calls of a purge and of an upload.       *)
(***************************************************************************)
\* the files and the folders that the listing of task t showed
ListedFiles(t) == optionalItems(tasks[t].listing.Files)
ListedFolders(t) == optionalItems(tasks[t].listing.Folders)

\* the sub-purges that task t has started
ChildrenOf(t) == {c \in 1..Len(tasks) : tasks[c].parent = t}

\* C21: once the listing of a directory has shown files f1..fn, the delete of
\* every fi has been sent, whatever the other deletes end with: a failed
\* delete leaves the sibling deletes sent and answered; and a purge that has
\* started the purge of one listed sub-directory has started that of all.
C21_PurgeFanOut ==
    Purging =>
        \A t \in 1..Len(tasks) :
            /\ \A k \in 1..Len(ListedFiles(t)) :
                   \E i \in RequestsWith("DELETE") :
                       requests[i].task = t /\ requests[i].name = ListedFiles(t)[k]
            /\ ChildrenOf(t) # {} =>
                   \A k \in 1..Len(ListedFolders(t)) :
                       \E c \in ChildrenOf(t) : \E i \in RequestsWith("GET") :
                           /\ requests[i].task = c
                           /\ requests[i].directory
                                  = DirectoryParameter(Append(remoteKey(directoryOf(tasks[t].dir)),
                                                              ListedFolders(t)[k]))

\* two files of one directory: the delete of one failed, that of the other succeeded
C21_Witness ==
    /\ Purging
    /\ Len(ListedFiles(1)) = 2
    /\ \E i, j \in RequestsWith("DELETE") :
           /\ requests[i].task = 1 /\ requests[j].task = 1
           /\ requests[i].status = 201
           /\ requests[j].status = 200

\* the listing request of task t
ListingOf(t) == CHOOSE i \in RequestsWith("GET") : requests[i].task = t

\* the delete requests of task t
DeletesOf(t) == {i \in RequestsWith("DELETE") : requests[i].task = t}

\* C22: in the purge of a directory D a delete of D is sent only when the
\* listing of D has been answered with status 200, and the listing of a
\* sub-directory of D only when, besides, every delete of D has been answered
\* with status 200.
C22_PurgeOrdering ==
    Purging =>
        \A t \in 1..Len(tasks) :
            /\ DeletesOf(t) # {} => requests[ListingOf(t)].status = 200
            /\ ChildrenOf(t) # {} =>
                   /\ requests[ListingOf(t)].status = 200
                   /\ \A i \in DeletesOf(t) : requests[i].status = 200

\* a directory with a file and a sub-directory: the listing of the
\* sub-directory is in flight, the delete of the file has been answered
C22_Witness ==
    /\ Purging
    /\ DeletesOf(1) # {}
    /\ \E c \in ChildrenOf(1) : requests[ListingOf(c)].status = Pending

\* the place of a name in the enumeration of a directory
PlaceOf(name) == CHOOSE k \in 1..Len(NameOrder) : NameOrder[k] = name

\* the path of the file of record i, relative to the local directory
RecordFile(i) == localRel(records[i].localFilePath)

\* the first position at which two paths differ
FirstDifference(a, b) ==
    CHOOSE m \in 1..Len(a) : m <= Len(b) /\ a[m] # b[m] /\ \A k \in 1..(m - 1) : a[k] = b[k]

\* C24: the records of uploadDirectory are in depth-first order of the local
\* tree: of two records, the first is the one whose path, at the first
\* directory where the two paths part, takes the entry enumerated first; so
\* the records of the files beneath a sub-directory are contiguous and stand
\* where the sub-directory stands among the entries of its parent.
C24_DepthFirstOrder ==
    op.kind = "uploadDirectory" =>
        /\ \A i, j \in 1..Len(records) :
               i < j =>
                   LET m == FirstDifference(RecordFile(i), RecordFile(j))
                   IN  PlaceOf(RecordFile(i)[m]) < PlaceOf(RecordFile(j)[m])
        /\ \A d \in localFS.dirs : \A i, j, k \in 1..Len(records) :
               (i < j /\ j < k /\ IsPrefix(d, RecordFile(i)) /\ IsPrefix(d, RecordFile(k)))
                   => IsPrefix(d, RecordFile(j))

\* the file of a sub-directory, then a file enumerated after the sub-directory
C24_Witness ==
    /\ UploadDirectoryDone
    /\ Len(records) = 2
    /\ RecordFile(1) = <<<<"s">>, NamePng>>
    /\ RecordFile(2) = <<NameSvg>>

\* C25: at every moment of uploadDirectory a record stands for an upload call
\* that has settled: its request, if one was sent, has been answered; the
\* record is successful exactly when the request ended with status 201, and
\* then carries the URL of that response; every other record, that of a
\* call that threw before its request included, has url = null.
C25_RecordOutcome ==
    op.kind = "uploadDirectory" =>
        \A i \in 1..Len(records) :
            IF Unsupported(fileNameOfPath(records[i].localFilePath))
            THEN ~records[i].isSuccessful /\ records[i].url = NoUrl
            ELSE LET q == requests[AttemptOf(i)]
                 IN  /\ q.status # Pending
                     /\ records[i].isSuccessful <=> q.status = 201
                     /\ records[i].isSuccessful =>
                            records[i].url = urlOf(q.directory, q.name) /\ records[i].url # NoUrl
                     /\ ~records[i].isSuccessful => records[i].url = NoUrl

\* a traversal under way: a successful record, the failed record of a file
\* whose extension is not accepted, and the upload of a third file in flight
C25_Witness ==
    /\ op.kind = "uploadDirectory"
    /\ op.status = "running"
    /\ Len(records) = 2
    /\ records[1].isSuccessful /\ records[1].url # NoUrl
    /\ ~records[2].isSuccessful /\ records[2].url = NoUrl
    /\ Len(requests) = 2
    /\ requests[2].status = Pending


\* the place the caller's local base path names on the local file system
SuppliedBase == resolveLocal(condenseEnd(op.local))

\* C26: each record's localFilePath is the local base path as the caller
\* supplied it followed by the file's relative path: it is absolute exactly
\* when the supplied base path is absolute, and it starts with the segments of
\* the supplied base path.
C26_LocalPathAsSupplied ==
    op.kind = "uploadDirectory" =>
        \A i \in 1..Len(records) :
            LET r == resolveLocal(records[i].localFilePath)
            IN  /\ r.abs = SuppliedBase.abs
                /\ IsPrefix(segmentsOf(sanitise(op.local)), r.segs)


\* the entry the loop of the innermost call visits when it goes on: the one
\* after the entry it awaited, <<>> when that was its last
NextVisit ==
    LET f == frames[Len(frames)]
        j == IF f.wait = "return" THEN f.i ELSE f.i + 1
    IN  IF j <= Len(f.files) THEN localFilePathOf(f.localPath, f.files[j]) ELSE <<>>

\* the loop of a running uploadDirectory goes on: an upload is answered, or
\* the job after another await runs
TraversalGoesOn ==
    /\ op.kind = "uploadDirectory" /\ op.status = "running"
    /\ op'.kind = "uploadDirectory"
    /\ <<requests, frames>>' # <<requests, frames>>

\* C30: when the entry that uploadDirectory visits next cannot be stat-ed, the
\* call rejects with the enumeration error: the only record added is that of
\* the upload just awaited, no request is sent, the traversal is over and
\* the caller gets no records; and uploadDirectory rejects in no other case.
C30_EnumerationNotTolerated ==
    [][/\ (TraversalGoesOn /\ NextVisit # <<>> /\ localKind(localFS, NextVisit) = "missing")
          => /\ op'.status = "rejected"
             /\ op'.error = Failure("Enumeration", 0)
             /\ op'.result = <<>>
             /\ Len(records') =
                    Len(records) + (IF frames[Len(frames)].wait = "return" THEN 0 ELSE 1)
             /\ Len(requests') = Len(requests)
             /\ frames' = <<>>
       /\ (op'.kind = "uploadDirectory" /\ op'.status = "rejected")
          => /\ op'.error = Failure("Enumeration", 0)
             /\ op'.result = <<>>
             /\ \A i \in 1..Len(requests') : requests'[i].status # Pending]_vars

C30_Witness ==
    /\ op.kind = "uploadDirectory"
    /\ op.status = "rejected"
    /\ Len(records) = 2
    /\ records[1].isSuccessful
    /\ ~records[2].isSuccessful


\* C27: when no startSession has returned successfully since the last
\* endSession (a startSession that rejected included) and no session call is
\* in progress, the instance holds no token.
C27_FailedStartNoSession ==
    (startCall.phase = "idle" /\ endCall.phase = "idle" /\ ~active) => sessionToken = 0


\* the call of endSession awaits its sign-out, then has the given outcome
EndSessionSettles(status) ==
    op.kind = "endSession" /\ op.status = "running" /\ op'.status = status

\* C28: an endSession whose sign-out fails rejects and leaves the token (and
\* the signed-in session) as it was; the token is cleared only by an
\* endSession whose sign-out was answered 201, which signs the token out; and
\* every operation invoked while the token is cleared fails with the
\* no-session error and sends nothing.
C28_FailedSignOutKeepsSession ==
    [][/\ EndSessionSettles("rejected")
          => /\ sessionToken' = sessionToken /\ sessionToken' = op.token
             /\ op.token \in live' /\ active' = active
       /\ (sessionToken # 0 /\ sessionToken' = 0)
          => /\ EndSessionSettles("resolved")
             /\ op.token = sessionToken /\ op.token \notin live'
       /\ EndSessionSettles("resolved") => sessionToken' = 0
       /\ (sessionToken = 0 /\ op.status = "idle" /\ op'.kind \in GuardedOperations)
          => /\ op'.status = "rejected" /\ op'.error = Failure("NoSession", 0)
             /\ requests' = <<>>]_vars

C28_Witness ==
    /\ op.kind = "endSession"
    /\ op.status = "rejected"
    /\ op.error = Failure("Transport", 0)
    /\ sessionToken = op.token /\ sessionToken # 0


FileOperations ==
    {"listDirectory", "uploadFile", "deleteFile", "uploadDirectory", "purgeDirectory"}

FileOperationInProgress == op.kind \in FileOperations /\ op.status = "running"

\* C23 as stated: the session token of the instance does not change while a
\* file operation of the instance is in progress, whatever the interleaving of
\* the calls.
C23_TokenStable ==
    [][FileOperationInProgress => sessionToken' = sessionToken]_vars

\* C23: the session token of the instance changes only when the sign-in of a
\* startSession returns (to the new token) and when the sign-out of an
\* endSession returns (to null); a file operation reads the token when it is
\* invoked and every request it sends carries that token, whatever the
\* interleaving of the calls and whatever the instance's token has become.
C23_TokenOfInvocation ==
    [][/\ sessionToken' # sessionToken
          => \/ /\ startCall.phase = "signIn" /\ startCall'.phase = "me"
                /\ sessionToken' \notin live \cup {0}
             \/ /\ endCall.phase = "signOut" /\ endCall'.phase = "idle"
                /\ sessionToken' = 0
       /\ (op.status = "idle" /\ op'.kind \in FileOperations /\ op'.status = "running")
          => op'.token = sessionToken
       /\ FileOperationInProgress => (op'.kind = op.kind /\ op'.token = op.token)
       /\ op'.kind \in FileOperations
          => \A k \in 1..Len(requests') : requests'[k].token = op'.token]_vars

C23_Witness ==
    /\ FileOperationInProgress
    /\ op.kind = "purgeDirectory"
    /\ sessionToken \notin {0, op.token}
    /\ \E k \in RequestsWith("DELETE") :
           requests[k].status = Pending /\ requests[k].token = op.token

\* C29: when no session call is in progress, every token that a successful
\* sign-in issued and that has not been signed out is the token the instance
\* holds.
C29_NoLeakedSession ==
    (startCall.phase = "idle" /\ endCall.phase = "idle") => live \subseteq {sessionToken}


\* the text after the last '.' of a name, the whole name when it has none
AfterLastDot(name) ==
    LET dots == {i \in 1..Len(name) : name[i] = "."}
    IN  IF dots = {} THEN name
        ELSE SubSeq(name, (CHOOSE i \in dots : \A j \in dots : j <= i) + 1, Len(name))

AcceptedExtensions ==
    {<<"p", "n", "g">>, <<"j", "p", "g">>, <<"s", "v", "g">>, <<"w", "e", "b", "p">>,
     <<"w", "o", "f", "f", "2">>}

\* the name given to the uploadFile in progress or just settled
UploadedName == frames[1].files[1]

\* C31: uploadFile sends its request exactly when the lower-cased text after
\* the last '.' of the file name (the whole name when it has no '.') is one of
\* png, jpg, svg, webp, woff2, whatever the case of the extension; otherwise
\* it rejects with the unsupported-type error and sends nothing; a name whose
\* extension is the type 'Folder', in any case, is never accepted.
C31_ExtensionRule ==
    op.kind = "uploadFile" =>
        /\ Len(requests) = 1 <=> toLowerCase(AfterLastDot(UploadedName)) \in AcceptedExtensions
        /\ requests = <<>>
           <=> (op.status = "rejected" /\ op.error = Failure("UnsupportedType", 0))
        /\ toLowerCase(AfterLastDot(UploadedName)) = <<"f", "o", "l", "d", "e", "r">>
           => requests = <<>>

C31_Witness ==
    /\ op.kind = "uploadFile"
    /\ UploadedName = <<"a", ".", "b", ".", "P", "n", "g">>
    /\ Len(requests) = 1
    /\ op.status = "resolved"


\* the elements of a list as texts
ListSegments(p) == [i \in 1..Len(p.a) |-> toString(p.a[i])]

\* C32 as stated: for every canonical path p, the empty path included,
\* splitting the '/'-joined string of p gives back the segments of p, and
\* sanitising the joined string of a sanitised list gives the same segments as
\* the list.
C32_RoundTrip ==
    pathStage = "roundtrip" =>
        /\ ListSegments(pathOut) = ListSegments(pathThis)
        /\ segmentsOf(pathOut2) = ListSegments(pathThis)

\* C32 as amended: for every canonical path p none of whose segments contains
\* '/', splitting the '/'-joined string of p gives back the segments of p when
\* p is not empty, and the single empty segment when p is empty; sanitising
\* the joined string of a sanitised list gives the same segments as the list,
\* the empty list included.
C32_SlashFreeRoundTrip ==
    (pathStage = "roundtrip" /\ SlashFree(pathThis.a)) =>
        /\ pathThis.a # <<>> => ListSegments(pathOut) = ListSegments(pathThis)
        /\ pathThis.a = <<>> => ListSegments(pathOut) = <<<<>>>>
        /\ segmentsOf(pathOut2) = ListSegments(pathThis)

C32_Witness ==
    /\ pathStage = "roundtrip"
    /\ pathIn = Arr(<<ES(<<" ", "a">>), EN(12)>>)
    /\ pathThis = Arr(<<ES(<<"a">>), ES(<<"1", "2">>)>>)
    /\ pathOut = pathThis
    /\ pathOut2 = Str(<<"a", "/", "1", "2">>)


\* the request path that names the file under the team's root
DeletePathOf(name) ==
    Websites \o <<"/">> \o Teams \o <<"/">> \o numberToString(TeamNumber) \o <<"/">> \o name

\* C33: the request of deleteFile addresses the file name it was given, as it
\* was given, as the last segment of the request path, with the directory
\* parameter of the given directory.
C33_DeleteTargetsName ==
    (op.kind = "deleteFile" /\ requests # <<>>) =>
        /\ requests[1].method = "DELETE"
        /\ requests[1].url = DeletePathOf(requests[1].name)
        /\ requests[1].directory = DirectoryParameter(segmentsOf(sanitise(op.remote)))


\* the directories a purge has listed, one per listing request
ListedDirectories == {requests[i].directory : i \in RequestsWith("GET")}

TraversalRunning ==
    op.kind \in {"uploadDirectory", "purgeDirectory"} /\ op.status = "running"

\* C34: when every request that is sent gets its response and every queued
\* job runs, an uploadDirectory on a finite local tree and a purgeDirectory on a
\* finite remote tree that is running eventually resolves or rejects; while it
\* runs it awaits a request that has been sent and is unanswered, or a call
\* it has made that has settled already; a purge lists no directory twice and
\* an upload has no two records of the same file.
C34_Termination ==
    /\ [](TraversalRunning =>
             /\ \/ \E i \in 1..Len(requests) : requests[i].status = Pending
                \/ /\ op.kind = "uploadDirectory"
                   /\ frames # <<>>
                   /\ frames[Len(frames)].wait \in {"catch", "return"}
             /\ Cardinality(ListedDirectories) = Cardinality(RequestsWith("GET"))
             /\ \A i, j \in 1..Len(records) :
                    records[i].localFilePath = records[j].localFilePath => i = j)
    /\ (TraversalRunning ~> op.status \in {"resolved", "rejected"})

C34_Witness ==
    /\ op.kind = "purgeDirectory"
    /\ op.recursive
    /\ op.status = "resolved"
    /\ Cardinality(RequestsWith("GET")) = 3
    /\ Cardinality(RequestsWith("DELETE")) = 1

====
